---------------------------- MODULE Spec2Model ----------------------------
(***************************************************************************)
(* A model of the HousePortal redirector (src/hp_redirect.c): the          *)
(* redirection table with its leases, the peer table, the signature keys,  *)
(* the configuration file loader and the UDP control port.                 *)
(*                                                                         *)
(* C strings are sequences of one-character strings; the terminating NUL   *)
(* is implicit (position Len(s)+1 reads as NUL).                           *)
(***************************************************************************)
EXTENDS Integers, Sequences, FiniteSets, TLC

(***************************************************************************)
(* Program constants.                                                      *)
(***************************************************************************)
REDIRECT_MAX == 128
REDIRECT_LIFETIME == 180
CHECK_PERIOD == 30
FORCED_EXPIRATION == 3000

(***************************************************************************)
(* Bounds of the model.                                                    *)
(***************************************************************************)
\* The clock value when the process starts.
Epoch == 1000
\* The clock does not advance beyond Epoch + MaxElapsed.
MaxElapsed == 182

\* Long loops are evaluated Block iterations at a time.
Block == 32

(***************************************************************************)
(* C library helpers.                                                      *)
(***************************************************************************)
NUL == "\\0"
Digits == <<"0", "1", "2", "3", "4", "5", "6", "7", "8", "9">>

Min(a, b) == IF a < b THEN a ELSE b

\* s[i] of a C string, 1-based; past the end reads the terminating NUL.
At(s, i) == IF i >= 1 /\ i <= Len(s) THEN s[i] ELSE NUL

\* buffer[i] >= ' ' is false for NUL and for control characters.
IsCtl(c) == c \in {NUL, "\n", "\r", "\t"}

\* s + k: the string that starts k characters into s.
Skip(s, k) == IF k >= Len(s) THEN <<>> ELSE SubSeq(s, k + 1, Len(s))

\* The first n characters of s (all of s when it is shorter).
Take(s, n) == SubSeq(s, 1, Min(n, Len(s)))

\* strcmp(a, b) == 0
StrEq(a, b) == a = b

\* strncmp(a, b, n) == 0: the comparison stops at n characters or at a NUL.
StrnEq(a, b, n) == Take(a, n) = Take(b, n)

\* strchr(s, c): the 1-based position of the first c in s, 0 when absent.
Strchr(s, c) ==
    IF \E i \in 1..Len(s) : s[i] = c
    THEN CHOOSE i \in 1..Len(s) : s[i] = c /\ \A j \in 1..(i - 1) : s[j] # c
    ELSE 0

\* strstr(s, p): the 1-based position of the first occurrence of p, 0 if none.
Strstr(s, p) ==
    LET hit(i) == SubSeq(s, i, i + Len(p) - 1) = p
        last == Len(s) - Len(p) + 1
    IN IF \E i \in 1..last : hit(i)
       THEN CHOOSE i \in 1..last : hit(i) /\ \A j \in 1..(i - 1) : ~hit(j)
       ELSE 0

DigitValue(c) == CHOOSE d \in 0..9 : Digits[d + 1] = c
IsDigit(c) == \E d \in 1..10 : Digits[d] = c

\* atoi / atoll on an unsigned decimal prefix: stops at the first non digit.
RECURSIVE AtoiFrom(_, _, _)
AtoiFrom(s, i, acc) ==
    IF i <= Len(s) /\ IsDigit(s[i])
    THEN AtoiFrom(s, i + 1, acc * 10 + DigitValue(s[i]))
    ELSE acc

Atoi(s) == AtoiFrom(s, 1, 0)

\* printf ("%lld") of a non negative number.
RECURSIVE Itoa(_)
Itoa(n) == IF n < 10 THEN <<Digits[n + 1]>>
           ELSE Itoa(n \div 10) \o <<Digits[(n % 10) + 1]>>

\* The words of ws separated by one space each.
RECURSIVE JoinRange(_, _, _)
JoinRange(ws, a, b) ==
    IF a > b THEN <<>>
    ELSE IF a = b THEN ws[a]
    ELSE LET m == (a + b) \div 2
         IN JoinRange(ws, a, m) \o <<" ">> \o JoinRange(ws, m + 1, b)

Join(ws) == JoinRange(ws, 1, Len(ws))

(***************************************************************************)
(* Literals of the source.                                                 *)
(***************************************************************************)
kREDIRECT == <<"R", "E", "D", "I", "R", "E", "C", "T">>
kPEER == <<"P", "E", "E", "R">>
kLOCAL == <<"L", "O", "C", "A", "L">>
kSIGN == <<"S", "I", "G", "N">>
kHIDE == <<"H", "I", "D", "E">>
kPID == <<"P", "I", "D", ":">>
kSHA256 == <<"S", "H", "A", "-", "2", "5", "6">>
sha256mark == <<" ">> \o kSHA256 \o <<" ">>

\* gethostname() of the machine the Portal runs on.
HostName == <<"h">>

VARIABLES
    now,                 \* time(0)
    pc,                  \* "start" before hp_redirect_start, "run", "exit"
    Redirections,        \* Redirections[0..RedirectionCount-1]
    Peers,               \* Peers[0..PeerCount-1]
    IntermediateDecode,  \* the signature keys
    RestrictUdp2Local,
    ConfigurationTime,
    LastCheck,
    file,                \* the configuration file: [mtime, text]
    events,              \* houselog_event calls of the latest handler
    client,              \* a service process: the state of houseportalclient.c
    depot,               \* the same process: the state of housedepositor.c
    discovery,           \* the same process: the state of housediscover.c
    log                  \* the same process: the state of houselog_live.c

vars == <<now, pc, Redirections, Peers, IntermediateDecode, RestrictUdp2Local,
          ConfigurationTime, LastCheck, file, events, client, depot,
          discovery, log>>

\* What the Portal's handlers leave alone: the other processes.
services == <<client, depot, discovery, log>>


(***************************************************************************)
(* The redirection table.                                                  *)
(***************************************************************************)
\* A null char pointer (no string holds a NUL).
Null == <<NUL>>

\* One houselog_event call: category, object, action.
Event(category, object, action) == <<category, object, action>>

\* The portal's tables as one value, as the handlers pass them along:
\* R = Redirections, P = Peers, K = IntermediateDecode,
\* L = RestrictUdp2Local, ev = the events logged so far, exited = exit() ran.
Portal(R, P, K, L, ev, exited) ==
    [R |-> R, P |-> P, K |-> K, L |-> L, ev |-> ev, exited |-> exited]

\* The test that skips an entry whose lease is over.
Lapsed(expiration, t) == expiration < t /\ expiration > 0

LooseBoundary(path, length) == TRUE

\* The character that follows the matched prefix ends the URI or is a '/'.
Boundary(path, length) ==
    At(path, length + 1) = NUL \/ At(path, length + 1) = "/"

\* The loop of SearchBestRedirect from slot i on; found is the best slot so
\* far (0: none) and quality its path length.
RECURSIVE SearchFrom(_, _, _, _, _, _)
SearchFrom(R, t, path, i, quality, found) ==
    IF i > Len(R) THEN found
    ELSE LET length == R[i].length
             skip == \/ length <= quality
                     \/ Lapsed(R[i].expiration, t)
                     \/ ~StrnEq(R[i].path, path, length)
                     \/ ~Boundary(path, length)
         IN IF skip THEN SearchFrom(R, t, path, i + 1, quality, found)
            ELSE SearchFrom(R, t, path, i + 1, length, i)

\* The slot (1-based) of the entry that serves path at time t, 0 for none.
SearchBestRedirect(R, t, path) ==
    IF At(path, 1) = NUL \/ At(path, 2) = NUL THEN 0
    ELSE SearchFrom(R, t, path, 1, 0, 0)

\* sizeof(url) in RedirectRoute.
URL_SIZE == 2048

\* What snprintf leaves in a buffer of size characters.
Snprintf(size, text) == Take(text, size - 1)

kHttp == <<"h", "t", "t", "p", ":", "/", "/">>

\* The text of the error answer, as one symbol.
kUnresolvable == <<"Unresolvable redirection.">>

ForwardedWhole(r, uri) == uri

\* The URI that RedirectRoute forwards for entry r: the request URI, or what
\* follows the matched prefix when the entry hides it ("/" when nothing does).
Forwarded(r, uri) ==
    IF r.hide # 0
    THEN IF At(uri, r.length + 1) = NUL THEN <<"/">> ELSE Skip(uri, r.length)
    ELSE uri

\* The answer of RedirectRoute to a request at time t: the HTTP status, and
\* the redirection URL or the error text. parameters is the query string as
\* echttp_parameter_join returns it; echttp_redirect answers 302 and
\* echttp_permanent_redirect 301.
RedirectRoute(R, t, uri, parameters) ==
    LET i == SearchBestRedirect(R, t, uri)
    IN IF i # 0
       THEN [status |-> IF R[i].expiration # 0 THEN 302 ELSE 301,
             text |-> Snprintf(URL_SIZE,
                         kHttp \o R[i].target \o Forwarded(R[i], uri)
                         \o (IF At(parameters, 1) # NUL
                             THEN <<"?">> \o parameters ELSE <<>>))]
       ELSE [status |-> 500, text |-> kUnresolvable]

DeprecatePermanentConfiguration(st) ==
    [st EXCEPT
        !.R = [i \in 1..Len(st.R) |->
                  IF st.R[i].expiration = 0
                  THEN [st.R[i] EXCEPT !.expiration = 1]
                  ELSE st.R[i]],
        !.K = <<>>,
        !.L = 0]

NotExpiredStrict(expiration, t) == expiration = 0 \/ t <= expiration

\* The test that keeps an entry in PruneRedirect.
NotExpired(expiration, t) == expiration = 0 \/ t < expiration

\* The loop of PruneRedirect from slot i down to slot low: a pruned slot is
\* overwritten with the last one.
RECURSIVE PruneFrom(_, _, _, _)
PruneFrom(st, t, i, low) ==
    IF i < low THEN st
    ELSE IF NotExpired(st.R[i].expiration, t) THEN PruneFrom(st, t, i - 1, low)
    ELSE LET n == Len(st.R)
             logged == Append(st.ev, Event("ROUTE", st.R[i].path, "REMOVED"))
             moved == IF i < n THEN [st.R EXCEPT ![i] = st.R[n]] ELSE st.R
         IN PruneFrom([st EXCEPT !.R = SubSeq(moved, 1, n - 1), !.ev = logged],
                      t, i - 1, low)

\* The same loop, run Block slots at a time from slot i down to the first.
RECURSIVE PruneBlocks(_, _, _)
PruneBlocks(st, t, i) ==
    IF i < 1 THEN st
    ELSE LET low == IF i > Block THEN i - Block + 1 ELSE 1
         IN PruneBlocks(PruneFrom(st, t, i, low), t, low - 1)

PruneRedirect(st, t) == PruneBlocks(st, t, Len(st.R))

FindRedirectSkipFirst(R, path) ==
    IF \E i \in 2..Len(R) : StrEq(R[i].path, path)
    THEN CHOOSE i \in 2..Len(R) :
            StrEq(R[i].path, path) /\ \A j \in 2..(i - 1) : ~StrEq(R[j].path, path)
    ELSE 0

\* The first slot that holds path, 0 when there is none.
FindRedirect(R, path) ==
    IF \E i \in 1..Len(R) : StrEq(R[i].path, path)
    THEN CHOOSE i \in 1..Len(R) :
            StrEq(R[i].path, path) /\ \A j \in 1..(i - 1) : ~StrEq(R[j].path, path)
    ELSE 0

AlwaysRoom(count) == TRUE

\* A new entry is stored only in a table that is not full.
HasRoom(count) == count < REDIRECT_MAX

NeverPermanent(live, e) == FALSE

\* A live registration does not touch a permanent entry.
KeepPermanent(live, e) == live # 0 /\ e.expiration = 0

RestartedAlways(e, pid, target) == TRUE

\* A renewal is a restart when the target or the (known) pid differs.
Restarted(e, pid, target) ==
    ~StrEq(e.target, target) \/ (pid # 0 /\ pid # e.pid)

\* The renewal of entry e at time t.
Renew(e, t, expiration, hide, pid, target, service) ==
    [e EXCEPT
        !.target = target,
        !.service = service,
        !.pid = IF pid # 0 /\ pid # e.pid THEN pid ELSE e.pid,
        !.start = IF Restarted(e, pid, target) THEN t ELSE e.start,
        !.hide = hide,
        !.expiration = expiration]

\* The events of a renewal, in the order of the code.
RenewEvents(e, pid, target, service, path) ==
    (IF service # Null
     THEN IF e.service = Null \/ ~StrEq(e.service, service)
          THEN <<Event("ROUTE", path, "UPDATED")>> ELSE <<>>
     ELSE IF e.service # Null
          THEN <<Event("ROUTE", path, "UPDATED")>> ELSE <<>>)
    \o (IF Restarted(e, pid, target)
        THEN <<Event("ROUTE", path, "RESTARTED")>> ELSE <<>>)

\* The target as stored: "host:port", the host name added when it is missing.
FullTarget(target) ==
    IF Strchr(target, ":") = 0 THEN HostName \o <<":">> \o target ELSE target

AddSingleRedirect(st, t, live, hide, pid, target, service, path) ==
    LET expiration == IF live # 0 THEN t + REDIRECT_LIFETIME ELSE 0
        full == FullTarget(target)
        i == FindRedirect(st.R, path)
    IN IF i # 0
       THEN IF KeepPermanent(live, st.R[i]) THEN st
            ELSE [st EXCEPT
                    !.R[i] = Renew(st.R[i], t, expiration, hide, pid, full, service),
                    !.ev = st.ev \o RenewEvents(st.R[i], pid, full, service, path)]
       ELSE IF HasRoom(Len(st.R))
       THEN [st EXCEPT
               !.R = Append(st.R,
                        [path |-> path, target |-> full, service |-> service,
                         length |-> Len(path), hide |-> hide, pid |-> pid,
                         start |-> t, expiration |-> expiration]),
               !.ev = Append(st.ev, Event("ROUTE", path, "ADD"))]
       ELSE st

\* The second loop of AddRedirect: one registration per [service:]path token.
RECURSIVE AddPaths(_, _, _, _, _, _, _, _)
AddPaths(st, t, live, hide, pid, target, token, i) ==
    IF i > Len(token) \/ st.exited THEN st
    ELSE LET s == Strchr(token[i], ":")
             service == IF s # 0 THEN Take(token[i], s - 1) ELSE Null
             path == IF s # 0 THEN Skip(token[i], s) ELSE token[i]
         IN AddPaths(AddSingleRedirect(st, t, live, hide, pid, target, service, path),
                     t, live, hide, pid, target, token, i + 1)

\* The first loop of AddRedirect: the options that follow the target.
\* Returns <<next token, hide, pid>>.
RECURSIVE Options(_, _, _, _, _)
Options(live, token, i, hide, pid) ==
    IF i > Len(token) THEN <<i, hide, pid>>
    ELSE IF StrEq(kHIDE, token[i]) THEN Options(live, token, i + 1, 1, pid)
    ELSE IF StrnEq(kPID, token[i], 4)
         THEN Options(live, token, i + 1, hide,
                      IF live # 0 THEN Atoi(Skip(token[i], 4)) ELSE pid)
    ELSE <<i, hide, pid>>

\* token: the target and what follows it.
AddRedirect(st, t, live, token) ==
    LET o == Options(live, token, 2, 0, 0)
    IN AddPaths(st, t, live, o[2], o[3], token[1], token, o[1])

(***************************************************************************)
(* The peer table.                                                         *)
(***************************************************************************)
\* The first slot that holds the peer name, 0 when there is none.
FindPeer(P, name) ==
    IF \E i \in 1..Len(P) : StrEq(P[i].name, name)
    THEN CHOOSE i \in 1..Len(P) :
            StrEq(P[i].name, name) /\ \A j \in 1..(i - 1) : ~StrEq(P[j].name, name)
    ELSE 0

AnyChange(existing, expiration) == existing # expiration

\* "No downgrade": a known peer is refreshed only to a later expiration, and
\* never when it is static.
Upgrade(existing, expiration) == existing > 0 /\ existing < expiration

AddOnePeer(st, t, name, expiration) ==
    LET i == FindPeer(st.P, name)
    IN IF i # 0
       THEN IF Upgrade(st.P[i].expiration, expiration)
            THEN [st EXCEPT
                    !.P[i].expiration = expiration,
                    !.ev = IF st.P[i].expiration < t
                           THEN Append(st.ev, Event("PEER", name, "RECOVER"))
                           ELSE st.ev]
            ELSE st
       ELSE IF HasRoom(Len(st.P))
       THEN [st EXCEPT
               !.P = Append(st.P, [name |-> name, expiration |-> expiration]),
               !.ev = Append(st.ev, Event("PEER", name, "ADD"))]
       ELSE st

\* The loop of AddPeers: one peer per token, "name" or "name=expiration".
RECURSIVE AddPeersFrom(_, _, _, _, _)
AddPeersFrom(st, t, live, token, i) ==
    IF i > Len(token) THEN st
    ELSE LET s == IF live # 0 THEN Strchr(token[i], "=") ELSE 0
             expiration == IF s # 0 THEN Atoi(Skip(token[i], s))
                           ELSE IF live # 0 THEN t + REDIRECT_LIFETIME ELSE 0
             name == IF s # 0 THEN Take(token[i], s - 1) ELSE token[i]
         IN AddPeersFrom(AddOnePeer(st, t, name, expiration),
                         t, live, token, i + 1)

AddPeers(st, t, live, token) ==
    IF StrEq(HostName, token[1]) THEN st
    ELSE AddPeersFrom(st, t, live, token, 1)

DetectExpiredPeers(st, t) ==
    LET expired(i) == st.P[i].expiration > 1 /\ st.P[i].expiration < t
        hits == SelectSeq([i \in 1..Len(st.P) |-> i], expired)
    IN [st EXCEPT
          !.P = [i \in 1..Len(st.P) |->
                    IF expired(i) THEN [st.P[i] EXCEPT !.expiration = 1]
                    ELSE st.P[i]],
          !.ev = st.ev \o [k \in 1..Len(hits) |->
                              Event("PEER", st.P[hits[k]].name, "EXPIRE")]]

PeersJsonAll(P, t) == [i \in 1..Len(P) |-> P[i].name]

\* The names that GET /portal/peers lists at time t, in the order of the
\* table: a peer whose lease is over is left out.
hp_redirect_peers_json(P, t) ==
    LET listed(i) == ~(P[i].expiration # 0 /\ P[i].expiration <= t)
        hits == SelectSeq([i \in 1..Len(P) |-> i], listed)
    IN [k \in 1..Len(hits) |-> P[hits[k]].name]

(***************************************************************************)
(* Decoding a line: a datagram or a line of the configuration file.        *)
(***************************************************************************)
\* The first position from i on that does not hold a space.
RECURSIVE SkipSpaces(_, _)
SkipSpaces(buffer, i) ==
    IF At(buffer, i) = " " THEN SkipSpaces(buffer, i + 1) ELSE i

\* The first position from i on that holds a space or ends the line: the
\* for loop of DecodeMessage stepping over the characters of a token.
RECURSIVE TokenEnd(_, _)
TokenEnd(buffer, i) ==
    IF IsCtl(At(buffer, i)) \/ At(buffer, i) = " " THEN i
    ELSE TokenEnd(buffer, i + 1)

\* The split loop of DecodeMessage, resumed at position i with the current
\* token starting at start, for n spaces at most. The character that follows
\* a run of spaces is not tested (the do-while leaves i on it and the for
\* loop steps over it). Returns the tokens once the line ends (done), or
\* many = TRUE when a space is met with REDIRECT_MAX tokens already stored.
RECURSIVE SplitSome(_, _, _, _, _)
SplitSome(buffer, i, start, token, n) ==
    LET e == TokenEnd(buffer, i)
        more == Append(token, SubSeq(buffer, start, e - 1))
    IN IF IsCtl(At(buffer, e))
       THEN [done |-> TRUE, many |-> FALSE, token |-> more,
             i |-> e, start |-> start]
       ELSE IF Len(token) >= REDIRECT_MAX
       THEN [done |-> TRUE, many |-> TRUE, token |-> token,
             i |-> e, start |-> start]
       ELSE LET j == SkipSpaces(buffer, e + 1)
            IN IF n <= 1
               THEN [done |-> FALSE, many |-> FALSE, token |-> more,
                     i |-> j + 1, start |-> j]
               ELSE SplitSome(buffer, j + 1, j, more, n - 1)

\* The same loop, run Block tokens at a time until the line ends.
RECURSIVE SplitAll(_, _)
SplitAll(buffer, s) ==
    IF s.done THEN s
    ELSE SplitAll(buffer, SplitSome(buffer, s.i, s.start, s.token, Block))

Split(buffer) ==
    SplitAll(buffer, [done |-> FALSE, many |-> FALSE, token |-> <<>>,
                      i |-> 1, start |-> 1])

\* exit(1) when the line comes from the configuration file.
Reject(st, live) == IF live = 0 THEN [st EXCEPT !.exited = TRUE] ELSE st

DecodeMessage(st, t, buffer, live) ==
    LET split == Split(buffer)
        token == split.token
        count == Len(token) - live
    IN IF split.many THEN Reject(st, live)
       ELSE IF StrEq(kREDIRECT, token[1])
       THEN IF count < 3 THEN Reject(st, live)
            ELSE AddRedirect(st, t, live, Skip(token, live + 1))
       ELSE IF StrEq(kPEER, token[1])
       THEN IF count < 2 THEN Reject(st, live)
            ELSE AddPeers(st, t, live, Skip(token, live + 1))
       ELSE IF live # 0 THEN st
       ELSE IF StrEq(kLOCAL, token[1])
       THEN [st EXCEPT !.L = 1,
                       !.ev = Append(st.ev, Event("SYSTEM", <<>>, "SET"))]
       ELSE IF StrEq(kSIGN, token[1])
       THEN IF Len(token) = 3 /\ Len(st.K) < 128
            THEN [st EXCEPT
                    !.K = Append(st.K, [method |-> token[2], value |-> token[3]]),
                    !.ev = Append(st.ev, Event("SYSTEM", <<>>, "SET"))]
            ELSE st
       ELSE Reject(st, live)

\* The read loop of LoadConfig over the lines of the file, from line i on;
\* exit() in DecodeMessage ends the process and the loop with it.
RECURSIVE LoadLines(_, _, _, _)
LoadLines(st, t, text, i) ==
    IF i > Len(text) \/ st.exited THEN st
    ELSE IF At(text[i], 1) # "#" /\ ~IsCtl(At(text[i], 1)) /\ At(text[i], 1) # " "
         THEN LoadLines(DecodeMessage(st, t, text[i], 0), t, text, i + 1)
         ELSE LoadLines(st, t, text, i + 1)

LoadConfig(st, t, text) == LoadLines(st, t, text, 1)

(***************************************************************************)
(* Signatures.                                                             *)
(***************************************************************************)
\* The number of hexadecimal digits of a signature.
SIGNATURE_SIZE == 8

\* The signature of data under hexkey: an ideal digest, one symbol that
\* names the key and the data it was computed from, followed by as many
\* zeroes as make a signature SIGNATURE_SIZE characters long. A null pointer
\* for any cypher other than SHA-256.
houseportalhmac(cypher, hexkey, data) ==
    IF StrEq(cypher, kSHA256)
    THEN <<ToString(<<hexkey, data>>)>> \o [k \in 1..(SIGNATURE_SIZE - 1) |-> "0"]
    ELSE Null

\* Some key of the configured method yields the signature value.
hp_redirect_inspect2(K, data, method, value) ==
    \E i \in 1..Len(K) :
        /\ StrEq(K[i].method, method)
        /\ StrEq(houseportalhmac(K[i].method, K[i].value, data), value)

\* What is left in the buffer once the signature is cut off.
Payload(data) ==
    LET cypher == Strstr(data, sha256mark)
    IN IF cypher # 0 THEN Take(data, cypher - 1) ELSE data

AcceptUnsigned(K, data) ==
    LET cypher == Strstr(data, sha256mark)
    IN \/ Len(K) <= 0
       \/ cypher = 0
       \/ hp_redirect_inspect2(K, Take(data, cypher - 1), kSHA256,
                               Skip(data, cypher - 1 + Len(sha256mark)))

\* TRUE when the datagram may be decoded.
hp_redirect_inspect(K, data) ==
    LET cypher == Strstr(data, sha256mark)
    IN \/ Len(K) <= 0
       \/ /\ cypher # 0
          /\ hp_redirect_inspect2(K, Take(data, cypher - 1), kSHA256,
                                  Skip(data, cypher - 1 + Len(sha256mark)))

(***************************************************************************)
(* The handlers.                                                           *)
(***************************************************************************)
\* The tables as the handler finds them, with no event logged yet.
Current == Portal(Redirections, Peers, IntermediateDecode, RestrictUdp2Local,
                  <<>>, FALSE)

\* The handler leaves the tables as in st.
Becomes(st) ==
    /\ Redirections' = st.R
    /\ Peers' = st.P
    /\ IntermediateDecode' = st.K
    /\ RestrictUdp2Local' = st.L
    /\ events' = st.ev
    /\ pc' = IF st.exited THEN "exit" ELSE "run"

\* The HTTP port under which a Portal is listed by its bare host name.
HTTP_PORT == 80

\* The name under which the Portal lists itself when it serves HTTP on port.
SelfName(port) ==
    IF port = HTTP_PORT THEN HostName ELSE HostName \o <<":">> \o Itoa(port)

\* port: the value of echttp_port(4).
hp_redirect_start(port) ==
    /\ pc = "start"
    /\ Becomes(LoadConfig(AddOnePeer(Current, now, SelfName(port), 0),
                          now, file.text))
    /\ ConfigurationTime' = file.mtime
    /\ UNCHANGED <<now, LastCheck, file, services>>

\* sizeof(buffer) in hp_redirect_udp.
RECEIVE_SIZE == 1024

\* recvfrom: what does not fit the buffer is discarded.
Received(datagram) == Take(datagram, RECEIVE_SIZE)

\* buffer[length] = 0 writes past the buffer when the datagram fills it: the
\* behaviour is undefined, the process goes on or dies.
Terminated(length) == IF length >= RECEIVE_SIZE THEN {FALSE, TRUE} ELSE {TRUE}

\* The line ends with REDIRECT_MAX tokens stored already: the last token is
\* stored past the end of token[], which no test prevents.
Overrun(buffer) ==
    ~Split(buffer).many /\ Len(Split(buffer).token) > REDIRECT_MAX

\* token[count++] = buffer + start after the loop of DecodeMessage: the
\* behaviour is undefined when it writes past token[], the process goes on
\* or dies.
Stored(buffer) == IF Overrun(buffer) THEN {FALSE, TRUE} ELSE {TRUE}

\* One datagram received on the control port.
hp_redirect_udp(datagram) ==
    /\ pc = "run"
    /\ Len(datagram) > 0
    /\ UNCHANGED <<now, ConfigurationTime, LastCheck, file, services>>
    /\ \E alive \in Terminated(Len(Received(datagram))) :
          LET buffer == Received(datagram)
          IN IF ~alive THEN Becomes([Current EXCEPT !.exited = TRUE])
             ELSE IF hp_redirect_inspect(IntermediateDecode, buffer)
             THEN \E kept \in Stored(Payload(buffer)) :
                     Becomes(IF kept
                             THEN DecodeMessage(Current, now, Payload(buffer), 1)
                             ELSE [Current EXCEPT !.exited = TRUE])
             ELSE Becomes(Current)

\* The configuration file has changed: the reload.
Reload(st, t, text) ==
    LET loaded == LoadConfig(DeprecatePermanentConfiguration(st), t, text)
    IN IF loaded.exited THEN loaded
       ELSE PruneRedirect(loaded, t + FORCED_EXPIRATION)

\* The periodic part of hp_redirect_background.
Periodic(st, t) ==
    IF ConfigurationTime # file.mtime THEN Reload(st, t, file.text)
    ELSE PruneRedirect(st, t)

hp_redirect_background ==
    /\ pc = "run"
    /\ IF now > LastCheck + CHECK_PERIOD
       THEN LET st == Periodic(Current, now)
            IN /\ Becomes(IF st.exited THEN st ELSE DetectExpiredPeers(st, now))
               /\ ConfigurationTime' = file.mtime
               /\ LastCheck' = IF st.exited THEN LastCheck ELSE now
       ELSE /\ Becomes(DetectExpiredPeers(Current, now))
            /\ UNCHANGED <<ConfigurationTime, LastCheck>>
    /\ UNCHANGED <<now, file, services>>

(***************************************************************************)
(* The environment: the clock and the configuration file.                  *)
(***************************************************************************)
\* The steps by which the clock advances between two handlers.
Deltas == {90, 91}

Tick(d) ==
    /\ pc = "run"
    /\ now + d <= Epoch + MaxElapsed
    /\ now' = now + d
    /\ UNCHANGED <<pc, Redirections, Peers, IntermediateDecode,
                   RestrictUdp2Local, ConfigurationTime, LastCheck, file, events,
                   services>>

\* The file is rewritten: its modification time is the time of the write.
EditConfig(text) ==
    /\ pc = "run"
    /\ file' = [mtime |-> now, text |-> text]
    /\ UNCHANGED <<now, pc, Redirections, Peers, IntermediateDecode,
                   RestrictUdp2Local, ConfigurationTime, LastCheck, events,
                   services>>

(***************************************************************************)
(* The client library of a service process (houseportalclient.c).          *)
(***************************************************************************)
HOUSEPORTALPACKET == 1400

\* The size of the arrays HousePortalRegistration.
REGISTRATION_MAX == 256

\* sizeof(short) in bits.
SHORT_BITS == 16

\* getpid() of the service process.
MyPid == 7

\* What the client's actions leave alone: the Portal.
portal == <<now, pc, Redirections, Peers, IntermediateDecode, RestrictUdp2Local,
            ConfigurationTime, LastCheck, file, events>>

\* The static data of houseportalclient.c before any call. argv: the
\* -portal-map options of the command line, as [external, internal] numbers;
\* sent: the datagrams that the latest houseportal_renew gave to hp_udp_send.
ClientStart ==
    [started |-> FALSE, argv |-> <<>>, PortMap |-> <<>>, ServicelHost |-> Null,
     SecondaryBuffer |-> <<>>, TemporaryBuffer |-> <<>>, TemporaryLength |-> 0,
     Registration |-> <<>>, sent |-> <<>>]

\* printf ("%d").
Printd(n) == IF n < 0 THEN <<"-">> \o Itoa(0 - n) ELSE Itoa(n)

\* The low bits of n as a signed short.
Wrap(n) ==
    ((n + 2 ^ (SHORT_BITS - 1)) % 2 ^ SHORT_BITS) - 2 ^ (SHORT_BITS - 1)

\* What sscanf ("%hd") may store for the number n: n when a short holds it;
\* the behaviour is undefined otherwise, the C library storing the low bits
\* or the largest short.
ScanShort(n) ==
    IF n = Wrap(n) THEN {n} ELSE {Wrap(n), 2 ^ (SHORT_BITS - 1) - 1}

\* The contents that HousePortalPortMap may have for the options argv.
PortMaps(argv) ==
    LET shorts == UNION {ScanShort(argv[i].external) \cup ScanShort(argv[i].internal) :
                            i \in 1..Len(argv)}
    IN { map \in [1..Len(argv) -> [external : shorts, internal : shorts]] :
            \A i \in 1..Len(argv) :
                /\ map[i].external \in ScanShort(argv[i].external)
                /\ map[i].internal \in ScanShort(argv[i].internal) }

\* server: the option -portal-server is given (the Portal is on another host).
houseportal_initialize(argv, server) ==
    /\ ~client.started
    /\ \E map \in PortMaps(argv) :
          client' = [client EXCEPT
                        !.started = TRUE,
                        !.argv = argv,
                        !.PortMap = map,
                        !.ServicelHost = IF server THEN HostName ELSE Null]
    /\ UNCHANGED <<portal, depot, discovery, log>>

houseportal_signature(cypher, key) ==
    /\ client.started
    /\ client' = [client EXCEPT
                      !.SecondaryBuffer = Take(cypher, 128),
                      !.TemporaryBuffer = Take(key, 128),
                      !.TemporaryLength = Len(key) \div 16,
                      !.sent = <<>>]
    /\ UNCHANGED <<portal, depot, discovery, log>>

\* The port to advertise: the external port of the first mapping whose
\* internal port is webport, webport itself when there is none.
Mapped(map, webport) ==
    IF \E i \in 1..Len(map) : webport = map[i].internal
    THEN map[CHOOSE i \in 1..Len(map) :
                /\ webport = map[i].internal
                /\ \A j \in 1..(i - 1) : webport # map[j].internal].external
    ELSE webport

\* "[host:]port PID:pid", the head of every registration.
Destination(host, webport) ==
    (IF host # Null THEN host \o <<":">> ELSE <<>>)
    \o Printd(webport) \o <<" ">> \o kPID \o Printd(MyPid)

\* strlen("REDIRECT 12345678901234")
hlen == 23

\* strncpy (cursor, path, n) followed by cursor += strlen(path): the path, or
\* its first n characters followed by what the buffer held (NUL stands for a
\* character that was never written).
Strncpy(path, n) ==
    IF Len(path) <= n THEN path
    ELSE Take(path, n) \o [k \in 1..(Len(path) - Min(n, Len(path))) |-> NUL]

\* The loop of houseportal_declare_more from path[i] on. done: the
\* registrations completed, the first at index base; current: what is
\* written of the registration at hand (cursor - HousePortalRegistration
\* [index] characters, so that length is hlen plus its length).
RECURSIVE PackFrom(_, _, _, _, _, _)
PackFrom(done, current, dest, path, i, base) ==
    LET length == hlen + Len(current)
        index == base + Len(done)
        split == length + 1 + Len(path[i]) >= HOUSEPORTALPACKET
        room == HOUSEPORTALPACKET - ((IF split THEN hlen + Len(dest) ELSE length) + 1)
        written == (IF split THEN dest ELSE current)
                   \o <<" ">> \o Strncpy(path[i], IF room > 0 THEN room ELSE 0)
    IN IF i > Len(path) THEN Append(done, current)
       ELSE IF split /\ index >= REGISTRATION_MAX - 1 THEN Append(done, current)
       ELSE PackFrom(IF split THEN Append(done, current) ELSE done,
                     written, dest, path, i + 1, base)

\* The registrations after houseportal_declare_more over those kept.
Declared_more(c, kept, webport, path) ==
    IF Len(path) = 0 \/ Len(kept) >= REGISTRATION_MAX THEN kept
    ELSE LET dest == Destination(c.ServicelHost, Mapped(c.PortMap, webport))
         IN kept \o PackFrom(<<>>, dest, dest, path, 1, Len(kept))

houseportal_declare_more(webport, path) ==
    /\ client.started
    /\ client' = [client EXCEPT
                      !.Registration = Declared_more(client, @, webport, path),
                      !.sent = <<>>]
    /\ UNCHANGED <<portal, depot, discovery, log>>

houseportal_declare(webport, path) ==
    /\ client.started
    /\ client' = [client EXCEPT
                      !.Registration = Declared_more(client, <<>>, webport, path),
                      !.sent = <<>>]
    /\ UNCHANGED <<portal, depot, discovery, log>>

\* "REDIRECT <time> ": what houseportal_renew writes first.
Prefix(t) == kREDIRECT \o <<" ">> \o Itoa(t) \o <<" ">>

\* The datagram that houseportal_renew sends for one registration at time t.
Renewal(c, t, registration) ==
    LET buffer == Prefix(t) \o registration
        signature == IF c.TemporaryLength # 0
                     THEN houseportalhmac(c.SecondaryBuffer, c.TemporaryBuffer, buffer)
                     ELSE Null
    IN IF signature # Null THEN buffer \o sha256mark \o signature ELSE buffer

houseportal_renew ==
    /\ client.started
    /\ LET sendable(r) == ~(Len(r) >= HOUSEPORTALPACKET - Len(Prefix(now)))
           kept == SelectSeq(client.Registration, sendable)
       IN client' = [client EXCEPT
                        !.sent = [k \in 1..Len(kept) |-> Renewal(client, now, kept[k])]]
    /\ UNCHANGED <<portal, depot, discovery, log>>

(***************************************************************************)
(* The depot client of a service process (housedepositor.c).               *)
(***************************************************************************)
MAX_CACHE == 256
MAX_SOURCE == 64

\* The status of a response that carries the answer.
HTTP_OK == 200

\* How long periodic waits for the responses to a check, a scan or a get.
RESPONSE_TIMEOUT == 10

\* The least time between two checks.
CHECK_INTERVAL == 5

\* How long the chosen depot server may stay silent before another is taken.
HOST_SILENCE == 180

kDepot == <<"/", "d", "e", "p", "o", "t", "/">>
DepotGroup == <<"h", "o", "m", "e">>

\* The static data of housedepositor.c before any call. requests: the HTTP
\* requests submitted and not answered yet, each with its callback (kind),
\* its context, the server asked and the time of submission. calls: the calls
\* of listeners made by the latest function, each with the name and the
\* timestamp it was given. listed: what the depot servers have reported of
\* the subscribed files since the latest scan started. pushed: the latest
\* PUT sent to the depot servers for each file, with its timestamp. issued:
\* for each GET not answered yet, the detected timestamp and the host of the
\* entry when it was submitted.
DepotStart ==
    [Cache |-> <<>>, Services |-> <<>>, Repositories |-> <<>>,
     CheckPending |-> 0, ScanPending |-> 0, CheckStart |-> 0, ScanStart |-> 0,
     requests |-> {}, calls |-> <<>>, listed |-> {}, pushed |-> {},
     issued |-> {}]

\* What the depot client's functions leave alone.
others == <<pc, Redirections, Peers, IntermediateDecode, RestrictUdp2Local,
            ConfigurationTime, LastCheck, file, events, client, discovery,
            log>>

\* The function at hand has called no listener yet.
Entered(d) == [d EXCEPT !.calls = <<>>]

Request(kind, context, provider, at) ==
    [kind |-> kind, context |-> context, provider |-> provider, at |-> at]

housedepositor_uri(repository, name) ==
    kDepot \o repository \o <<"/">> \o DepotGroup \o <<"/">> \o name

\* The 1-based index of the cache entry of that name, 0 when there is none.
housedepositor_search(Cache, name) ==
    IF \E i \in 1..Len(Cache) : StrEq(Cache[i].uri, name)
    THEN CHOOSE i \in 1..Len(Cache) :
            /\ StrEq(Cache[i].uri, name)
            /\ \A j \in 1..(i - 1) : ~StrEq(Cache[j].uri, name)
    ELSE 0

Subscribed(d, repository, name, listener) ==
    LET uri == housedepositor_uri(repository, name)
        known == \E k \in 1..Len(d.Repositories) : StrEq(d.Repositories[k], repository)
    IN IF Len(d.Cache) >= MAX_CACHE THEN d
       ELSE IF housedepositor_search(d.Cache, uri) > 0 THEN d
       ELSE [d EXCEPT
               !.Cache = Append(@, [uri |-> uri, listener |-> listener,
                                    refreshing |-> 0, active |-> 0,
                                    detected |-> 0, host |-> <<>>,
                                    hostalive |-> 0]),
               !.Repositories = IF known \/ Len(@) >= MAX_SOURCE THEN @
                                ELSE Append(@, repository)]

housedepositor_subscribe(repository, name, listener) ==
    /\ depot' = Subscribed(Entered(depot), repository, name, listener)
    /\ UNCHANGED <<now, others>>

\* housedepositor_put_submit once the PUT requests are on their way to the
\* depot servers discovered (providers). The responses change nothing here.
PutSubmitted(d, t, repository, name, providers) ==
    LET uri == housedepositor_uri(repository, name)
        cached == housedepositor_search(d.Cache, uri)
        sent == [d EXCEPT !.pushed = { p \in @ : ~StrEq(p.uri, uri) }
                                      \cup {[uri |-> uri, timestamp |-> t]}]
    IN IF providers = {} THEN d
       ELSE IF cached = 0 THEN sent
       ELSE [sent EXCEPT !.Cache[cached].detected = t, !.Cache[cached].active = t]

housedepositor_put(repository, name, providers) ==
    /\ depot' = PutSubmitted(Entered(depot), now, repository, name, providers)
    /\ UNCHANGED <<now, others>>

\* status: what echttp_redirected returns once the redirections are followed.
GetResponded(d, request, status) ==
    LET cache == d.Cache[request.context]
        mine == { g \in d.issued :
                    g.context = request.context /\ g.at = request.at }
        wanted == CHOOSE g \in mine : TRUE
    IN [d EXCEPT
          !.requests = @ \ {request},
          !.issued = @ \ mine,
          !.calls = IF status = HTTP_OK /\ cache.listener # 0
                    THEN Append(@, [uri |-> cache.uri,
                                    timestamp |-> cache.detected,
                                    wanted |-> wanted.timestamp,
                                    source |-> request.provider,
                                    host |-> cache.host,
                                    held |-> cache.active])
                    ELSE @,
          !.Cache[request.context] =
              IF status # HTTP_OK
              THEN [cache EXCEPT !.refreshing = 0, !.detected = cache.active]
              ELSE IF cache.listener # 0
              THEN [cache EXCEPT !.refreshing = 0, !.active = cache.detected]
              ELSE [cache EXCEPT !.refreshing = 0]]

housedepositor_get_response(request, status) ==
    /\ request \in depot.requests
    /\ request.kind = "get"
    /\ depot' = GetResponded(Entered(depot), request, status)
    /\ UNCHANGED <<now, others>>

\* The loop of housedepositor_refresh from entry i on; started: the value of
\* its counter of downloads.
RECURSIVE RefreshFrom(_, _, _, _)
RefreshFrom(d, t, i, started) ==
    IF i > Len(d.Cache) THEN [depot |-> d, refreshing |-> started]
    ELSE LET cache == d.Cache[i]
         IN IF cache.detected = 0 THEN RefreshFrom(d, t, i + 1, started)
            ELSE IF cache.refreshing # 0
            THEN RefreshFrom(
                    IF t > cache.refreshing + RESPONSE_TIMEOUT
                    THEN [d EXCEPT !.Cache[i].detected = cache.active,
                                   !.Cache[i].refreshing = 0]
                    ELSE d, t, i + 1, started)
            ELSE IF cache.detected # cache.active
            THEN RefreshFrom(
                    [d EXCEPT !.Cache[i].refreshing = t,
                              !.requests = @ \cup {Request("get", i, cache.host, t)},
                              !.issued = @ \cup {[context |-> i, at |-> t,
                                                  timestamp |-> cache.detected,
                                                  host |-> cache.host]}],
                    t, i + 1, started + 1)
            ELSE RefreshFrom(d, t, i + 1, started)

housedepositor_refresh(d, t) == RefreshFrom(d, t, 1, 0)

\* Some depot service has changed since it was scanned.
NeedScan(d) ==
    \E i \in 1..Len(d.Services) : d.Services[i].scanned # d.Services[i].detected

\* One scan request for each repository and each depot server discovered.
ScanStarted(d, t, providers) ==
    LET asked == { Request("scan", d.Repositories[k], provider, t) :
                      k \in 1..Len(d.Repositories), provider \in providers }
    IN [d EXCEPT
          !.Services = [i \in 1..Len(d.Services) |->
                           [d.Services[i] EXCEPT !.scanned = d.Services[i].detected]],
          !.Cache = [i \in 1..Len(d.Cache) |-> [d.Cache[i] EXCEPT !.detected = 0]],
          !.ScanPending = Cardinality(asked),
          !.ScanStart = t,
          !.requests = @ \cup asked,
          !.listed = {}]

\* One check request for each depot server discovered.
CheckStarted(d, t, providers) ==
    IF t < d.CheckStart + CHECK_INTERVAL THEN d
    ELSE [d EXCEPT
            !.CheckPending = Cardinality(providers),
            !.CheckStart = IF providers # {} THEN t ELSE @,
            !.requests = @ \cup { Request("check", Null, provider, t) :
                                    provider \in providers }]

\* housedepositor_periodic once no scan and no check is awaited.
Idle(d, t, providers) ==
    LET refreshed == housedepositor_refresh(d, t)
        scanning == ScanStarted(refreshed.depot, t, providers)
    IN IF refreshed.refreshing # 0 THEN refreshed.depot
       ELSE IF NeedScan(refreshed.depot)
       THEN IF scanning.ScanPending > 0 THEN scanning
            ELSE CheckStarted(scanning, t, providers)
       ELSE CheckStarted(refreshed.depot, t, providers)

Periodically(d, t, providers) ==
    LET scanned == IF d.ScanPending > 0 THEN [d EXCEPT !.ScanPending = 0] ELSE d
        checked == IF scanned.CheckPending > 0
                   THEN [scanned EXCEPT !.CheckPending = 0] ELSE scanned
    IN IF d.ScanPending > 0 /\ t <= d.ScanStart + RESPONSE_TIMEOUT THEN d
       ELSE IF scanned.CheckPending > 0 /\ t <= scanned.CheckStart + RESPONSE_TIMEOUT
       THEN scanned
       ELSE Idle(checked, t, providers)

\* providers: the depot servers that housediscovered knows at this time.
housedepositor_periodic(providers) ==
    /\ depot' = Periodically(Entered(depot), now, providers)
    /\ UNCHANGED <<now, others>>

SilentAlways(cache, t) == TRUE

\* The chosen depot server has not listed the file for HOST_SILENCE seconds.
Silent(cache, t) == cache.hostalive < t - HOST_SILENCE

\* What one item of the list of files does to the cache.
Found(d, t, host, item) ==
    LET cached == housedepositor_search(d.Cache, item.name)
        cache == d.Cache[cached]
        chosen == [cache EXCEPT !.host = host, !.detected = item.time,
                                !.hostalive = t]
        noted == [d EXCEPT !.listed = @ \cup {[uri |-> item.name, host |-> host,
                                                 time |-> item.time]}]
    IN IF cached = 0 THEN d
       ELSE IF cache.active = 0
       THEN IF cache.detected < item.time
            THEN [noted EXCEPT !.Cache[cached] = chosen] ELSE noted
       ELSE IF StrEq(cache.host, host)
       THEN [noted EXCEPT !.Cache[cached] = chosen]
       ELSE IF Silent(cache, t)
       THEN [noted EXCEPT !.Cache[cached] = chosen]
       ELSE noted

RECURSIVE FoundFrom(_, _, _, _, _)
FoundFrom(d, t, host, files, i) ==
    IF i > Len(files) THEN d
    ELSE FoundFrom(Found(d, t, host, files[i]), t, host, files, i + 1)

\* host, files: the items ".host" and ".files" of the response.
ScanResponded(d, t, request, status, host, files) ==
    LET counted == [d EXCEPT
                       !.requests = @ \ {request},
                       !.ScanPending = IF @ - 1 <= 0 THEN 0 ELSE @ - 1]
    IN IF status # HTTP_OK THEN counted
       ELSE FoundFrom(counted, t, host, files, 1)

housedepositor_scan_response(request, status, host, files) ==
    /\ request \in depot.requests
    /\ request.kind = "scan"
    /\ depot' = ScanResponded(Entered(depot), now, request, status, host, files)
    /\ UNCHANGED <<now, others>>

\* host, updated: the items ".host" and ".updated" of the response.
CheckResponded(d, request, status, host, updated) ==
    LET counted == [d EXCEPT
                       !.requests = @ \ {request},
                       !.CheckPending = IF @ - 1 <= 0 THEN 0 ELSE @ - 1]
        known == { i \in 1..Len(d.Services) : StrEq(host, d.Services[i].host) }
        first == CHOOSE i \in known : \A j \in known : i <= j
    IN IF status # HTTP_OK THEN counted
       ELSE IF known # {}
       THEN [counted EXCEPT !.Services[first].detected = updated]
       ELSE [counted EXCEPT
               !.Services = Append(@, [host |-> host, detected |-> updated,
                                       scanned |-> 0])]

housedepositor_check_response(request, status, host, updated) ==
    /\ request \in depot.requests
    /\ request.kind = "check"
    /\ depot' = CheckResponded(Entered(depot), request, status, host, updated)
    /\ UNCHANGED <<now, others>>

(***************************************************************************)
(* The discovery client of a service process (housediscover.c).           *)
(***************************************************************************)
DISCOVERY_PORTAL_INTERVAL == 10
DISCOVERY_SERVICE_INTERVAL == 120

\* now - 8 in housediscover_peers_response: the next request comes 2 seconds
\* after a new portal was found.
DISCOVERY_SETTLE == 8

kPortalList == <<"/", "p", "o", "r", "t", "a", "l", "/", "l", "i", "s", "t">>
kPortal == <<"p", "o", "r", "t", "a", "l">>

\* The static data of housediscover.c before any call. The two hash tables
\* are the sequences of their keys, in the order of echttp_hash_add, and the
\* arrays are indexed like them from 1. A table is never full here.
\* requests: the HTTP requests submitted and not answered yet. started: the
\* time when the latest GET of /portal/peers was started, submitted or not.
\* attempt: what the latest call did of its request. asked, calls: the service given to
\* the latest housediscovered and the URLs that it gave to the consumer.
DiscoveryStart ==
    [DiscoveryByUrl |-> <<>>, DiscoveryLatest |-> <<>>,
     DiscoveryByService |-> <<>>, DiscoveryUrl |-> <<>>,
     DiscoveryFirstDetected |-> <<>>,
     DiscoveryRequest |-> 0, DiscoveryDetail |-> 0,
     requests |-> {}, started |-> 0, attempt |-> "none",
     asked |-> Null, calls |-> <<>>]

\* What the discovery client's functions leave alone.
beside == <<pc, Redirections, Peers, IntermediateDecode, RestrictUdp2Local,
            ConfigurationTime, LastCheck, file, events, client, depot, log>>

\* The function at hand has made no request and called no consumer yet.
Called(d) == [d EXCEPT !.attempt = "none", !.asked = Null, !.calls = <<>>]

housediscover_lapsed(d, timestamp) ==
    timestamp + DISCOVERY_SERVICE_INTERVAL < d.DiscoveryRequest

\* The index of an entry of that name, 0 when there is none. When several
\* entries have the name the table gives the most recent one or the first
\* one (recent).
echttp_hash_find(table, name, recent) ==
    LET found == { i \in 1..Len(table) : StrEq(table[i], name) }
    IN IF found = {} THEN 0
       ELSE IF recent THEN CHOOSE i \in found : \A j \in found : j <= i
       ELSE CHOOSE i \in found : \A j \in found : i <= j

\* The indexes that echttp_hash_iterate gives to the iterator.
echttp_hash_iterate(table, name) ==
    { i \in 1..Len(table) : StrEq(table[i], name) }

\* The static data after housediscover_register(name, url) at time t.
housediscover_register(d, t, name, url, recent) ==
    LET byurl == echttp_hash_find(d.DiscoveryByUrl, url, recent)
        byservice == echttp_hash_find(d.DiscoveryByService, name, recent)
    IN IF byurl <= 0
       THEN [d EXCEPT !.DiscoveryByUrl = Append(@, url),
                      !.DiscoveryLatest = Append(@, t),
                      !.DiscoveryByService = Append(@, name),
                      !.DiscoveryUrl = Append(@, url),
                      !.DiscoveryFirstDetected = Append(@, t)]
       ELSE [d EXCEPT
               !.DiscoveryFirstDetected =
                   IF /\ housediscover_lapsed(d, d.DiscoveryLatest[byurl])
                      /\ byservice > 0
                   THEN [@ EXCEPT ![byservice] = t] ELSE @,
               !.DiscoveryLatest[byurl] = t]

\* The loop of a response handler over the items decoded: [name, url].
RECURSIVE RegisterFrom(_, _, _, _, _)
RegisterFrom(d, t, items, i, recent) ==
    IF i > Len(items) THEN d
    ELSE RegisterFrom(housediscover_register(d, t, items[i].name,
                                             items[i].url, recent),
                      t, items, i + 1, recent)

\* redirects: the items of ".portal.redirect", each with its ".service"
\* (Null when there is none) and its ".path".
ServiceResponded(d, t, request, status, host, redirects, recent) ==
    LET answered == [d EXCEPT !.requests = @ \ {request}]
        declared == SelectSeq(redirects, LAMBDA r : r.service # Null)
        items == [k \in 1..Len(declared) |->
                     [name |-> declared[k].service,
                      url |-> kHttp \o host \o declared[k].path]]
    IN IF status # HTTP_OK THEN answered
       ELSE RegisterFrom(answered, t, items, 1, recent)

housediscover_service_response(request, status, host, redirects, recent) ==
    /\ request \in discovery.requests
    /\ request.kind = "service"
    /\ discovery' = ServiceResponded(Called(discovery), now, request, status,
                                     host, redirects, recent)
    /\ UNCHANGED <<now, beside>>

\* housediscover_peers_iterator over the portals known: reachable are the
\* URLs for which echttp_client gives no error.
PeersIterated(d, t, reachable) ==
    LET portals == { i \in echttp_hash_iterate(d.DiscoveryByService, kPortal) :
                        d.DiscoveryLatest[i] # 0 }
    IN [d EXCEPT
          !.DiscoveryLatest =
              [i \in 1..Len(@) |->
                  IF i \in portals /\ d.DiscoveryUrl[i] \notin reachable
                  THEN 0 ELSE @[i]],
          !.requests = @ \cup
              { Request("service", 0, d.DiscoveryUrl[i], 0) :
                  i \in { j \in portals : d.DiscoveryUrl[j] \in reachable } }]

\* peers: the strings of ".portal.peers".
PeersResponded(d, t, request, status, peers, recent, reachable) ==
    LET answered == [d EXCEPT !.requests = @ \ {request}]
        items == [k \in 1..Len(peers) |->
                     [name |-> kPortal,
                      url |-> kHttp \o peers[k] \o kPortalList]]
        newportal == \E k \in 1..Len(items) :
                        echttp_hash_find(d.DiscoveryByUrl, items[k].url,
                                         recent) <= 0
        registered == RegisterFrom(answered, t, items, 1, recent)
    IN IF status # HTTP_OK \/ Len(peers) = 0
       THEN [answered EXCEPT !.attempt = "error"]
       ELSE IF newportal
       THEN [registered EXCEPT !.DiscoveryDetail = 0,
                               !.DiscoveryRequest = t - DISCOVERY_SETTLE]
       ELSE IF t >= d.DiscoveryDetail + DISCOVERY_SERVICE_INTERVAL
       THEN [PeersIterated(registered, t, reachable) EXCEPT
               !.DiscoveryDetail = t]
       ELSE registered

housediscover_peers_response(request, status, peers, recent, reachable) ==
    /\ request \in discovery.requests
    /\ request.kind = "peers"
    /\ discovery' = PeersResponded(Called(discovery), now, request, status,
                                   peers, recent, reachable)
    /\ UNCHANGED <<now, beside>>

\* housediscover(t): reachable is FALSE when echttp_client gives an error
\* for the local Portal.
Discover(d, t, reachable) ==
    IF t = 0 THEN [d EXCEPT !.DiscoveryRequest = 0, !.attempt = "reset"]
    ELSE IF t < d.DiscoveryRequest + DISCOVERY_PORTAL_INTERVAL
    THEN [d EXCEPT !.attempt = "skipped"]
    ELSE IF ~reachable
    THEN [d EXCEPT !.DiscoveryRequest = t, !.attempt = "failed",
                   !.started = t]
    ELSE [d EXCEPT !.DiscoveryRequest = t, !.attempt = "submitted",
                   !.started = t,
                   !.requests = @ \cup {Request("peers", 0, <<>>, 0)}]

housediscover(t, reachable) ==
    /\ discovery' = Discover(Called(discovery), t, reachable)
    /\ UNCHANGED <<now, beside>>

\* The value of DiscoveryMostRecent after the iteration.
MostRecent(d, service) ==
    LET found == echttp_hash_iterate(d.DiscoveryByService, service)
        times == { d.DiscoveryFirstDetected[i] : i \in found } \cup {0}
    IN CHOOSE m \in times : \A x \in times : x <= m

housediscover_changed(d, service, since) == MostRecent(d, service) >= since

\* The URLs that housediscovered_iterator gives to the consumer, in order.
Consumed(d, service) ==
    LET all == [i \in 1..Len(d.DiscoveryByService) |-> i]
        kept == SelectSeq(all, LAMBDA i :
                    /\ StrEq(d.DiscoveryByService[i], service)
                    /\ ~housediscover_lapsed(d, d.DiscoveryLatest[i]))
    IN [k \in 1..Len(kept) |-> d.DiscoveryUrl[kept[k]]]

housediscovered(service) ==
    /\ discovery' = [Called(discovery) EXCEPT
                        !.asked = service,
                        !.calls = Consumed(discovery, service)]
    /\ UNCHANGED <<now, beside>>

(***************************************************************************)
(* The event and trace log of a service process (houselog_live.c and       *)
(* houselog_storage.c).                                                    *)
(***************************************************************************)
EVENT_DEPTH == 256
TRACE_DEPTH == 16
REQUESTSMAX == 8
SHORT_MASK == 65536                    \* time(0) & 0xffff
EVENT_FLUSH_DELAY == 2                 \* now < EventLastFlushTime + 2

kHistory == <<"h", "i", "s", "t", "o", "r", "y">>

\* A slot of EventHistory or TraceHistory that holds nothing.
Blank == [timestamp |-> 0, unsaved |-> 0, id |-> 0, propagate |-> 0]

\* The slot i of a ring: the slots that hold nothing are not stored.
Slot(history, i) == IF i \in DOMAIN history THEN history[i] ELSE Blank

\* The ring with the record written to slot i.
Written(history, i, record) ==
    [j \in DOMAIN history \cup {i} |-> IF j = i THEN record ELSE history[j]]

\* The ring with slot i zeroed.
Erased(history, i) == [j \in DOMAIN history \ {i} |-> history[j]]

\* The static data of the two files before any call. A record keeps, beside
\* its fields timestamp and unsaved, the value of the latest ID once counted
\* (id) and the argument propagate of houselog_event_new. posts: the POST
\* requests submitted and not answered yet, each with the ids of the records
\* of its data. stored: the ids of the records of the POST requests that a
\* history service answered with status 200. The calls of houselog_trace
\* and houselog_event_local made by the other functions of the process are
\* the actions houselog_trace and houselog_event_local taken after them.
LogStart ==
    [initialized |-> FALSE,
     EventHistory |-> [i \in {} |-> Blank],
     EventCursor |-> 0, EventLatestId |-> 0, EventLastFlushed |-> 0,
     EventLastFlushTime |-> 0,
     TraceHistory |-> [i \in {} |-> Blank],
     TraceCursor |-> 0, TraceLatestId |-> 0, TraceLastFlushed |-> 0,
     StoragePendingRequests |-> <<>>,
     posts |-> {}, stored |-> {}]

\* What the log's functions leave alone, but for the discovery client.
apart == <<pc, Redirections, Peers, IntermediateDecode, RestrictUdp2Local,
           ConfigurationTime, LastCheck, file, events, client, depot>>

\* The history services to which houselog_storage_send submits a POST:
\* those that housediscovered gives and that echttp_client accepts.
HistoryProviders(d, accepted) ==
    { Consumed(d, kHistory)[k] : k \in 1..Len(Consumed(d, kHistory)) }
        \cap accepted

\* The records that houselog_event_json (filtered) and houselog_trace_json
\* write and mark 2: every slot but the cursor's.
Forwarding(history, cursor, depth) ==
    { i \in (0..(depth - 1)) \cap DOMAIN history :
        /\ i # cursor
        /\ history[i].timestamp # 0
        /\ history[i].unsaved # 0 }

\* houselog_storage_start: the index of the pending request to use, 0 when
\* the one of this type is busy or when the table is full.
houselog_storage_start(requests, logtype) ==
    LET known == { k \in 1..Len(requests) : requests[k].logtype = logtype }
        first == CHOOSE k \in known : \A j \in known : k <= j
    IN IF known # {} THEN (IF requests[first].busy > 0 THEN 0 ELSE first)
       ELSE IF Len(requests) >= REQUESTSMAX THEN 0
       ELSE Len(requests) + 1

\* houselog_storage_flush: result is what it returns, log the data after it.
houselog_storage_flush(l, logtype, batch, providers) ==
    LET k == houselog_storage_start(l.StoragePendingRequests, logtype)
        started ==
            IF k > Len(l.StoragePendingRequests)
            THEN [l EXCEPT !.StoragePendingRequests =
                              Append(@, [logtype |-> logtype, busy |-> 0])]
            ELSE l
    IN IF k = 0 THEN [result |-> 0, log |-> l]
       ELSE IF providers = {} THEN [result |-> 0, log |-> started]
       ELSE [result |-> 1,
             log |-> [started EXCEPT
                        !.StoragePendingRequests[k].busy =
                            Cardinality(providers),
                        !.posts = @ \cup
                            { [logtype |-> logtype, provider |-> p,
                               batch |-> batch] : p \in providers }]]

\* The response to a POST: its status is not read.
StorageResponded(l, post, status) ==
    LET known == { k \in 1..Len(l.StoragePendingRequests) :
                      l.StoragePendingRequests[k].logtype = post.logtype }
        k == CHOOSE j \in known : TRUE
    IN [l EXCEPT !.StoragePendingRequests[k].busy = @ - 1,
                 !.posts = @ \ {post},
                 !.stored = IF status = HTTP_OK
                            THEN @ \cup { <<post.logtype, id>> : id \in post.batch }
                            ELSE @]

houselog_storage_response(post, status) ==
    /\ post \in log.posts
    /\ log' = StorageResponded(log, post, status)
    /\ UNCHANGED <<now, apart, discovery>>

\* The ring after the loop that ends a flush: unsaved 2 becomes newunsaved.
Unsaved(history, marked, newunsaved) ==
    [i \in DOMAIN history |->
        IF i \in marked THEN [history[i] EXCEPT !.unsaved = newunsaved]
        ELSE history[i]]

houselog_event_flush(l, providers) ==
    LET marked == Forwarding(l.EventHistory, l.EventCursor, EVENT_DEPTH)
        batch == { l.EventHistory[i].id : i \in marked }
        flushed == houselog_storage_flush(l, "events", batch, providers)
    IN IF marked = {} THEN l
       ELSE [flushed.log EXCEPT
               !.EventLastFlushed = IF flushed.result # 0
                                    THEN l.EventLatestId ELSE @,
               !.EventHistory = Unsaved(@, marked,
                                        IF flushed.result # 0 THEN 0 ELSE 1)]

houselog_trace_flush(l, providers) ==
    LET marked == Forwarding(l.TraceHistory, l.TraceCursor, TRACE_DEPTH)
        batch == { l.TraceHistory[i].id : i \in marked }
        flushed == houselog_storage_flush(l, "traces", batch, providers)
    IN [flushed.log EXCEPT
          !.TraceLastFlushed = IF flushed.result # 0
                               THEN l.TraceLatestId ELSE @,
          !.TraceHistory = Unsaved(@, marked,
                                   IF flushed.result # 0 THEN 0 ELSE 1)]

\* The latest ID once the new record is counted.
NextId(latest, t) == IF latest = 0 THEN (t % SHORT_MASK) + 1 ELSE latest + 1

houselog_event_new(l, t, propagate, providers) ==
    LET id == NextId(l.EventLatestId, t)
        next == (l.EventCursor + 1) % EVENT_DEPTH
        written == [l EXCEPT
                      !.EventHistory =
                          Written(@, l.EventCursor,
                                  [timestamp |-> t, unsaved |-> propagate,
                                   id |-> id, propagate |-> propagate]),
                      !.EventCursor = next]
        sent == IF /\ Slot(written.EventHistory, next).timestamp # 0
                   /\ Slot(written.EventHistory, next).unsaved # 0
                THEN houselog_event_flush(written, providers) ELSE written
    IN [sent EXCEPT !.EventHistory = Erased(@, next), !.EventLatestId = id]

Traced(l, t, providers) ==
    LET id == NextId(l.TraceLatestId, t)
        next == (l.TraceCursor + 1) % TRACE_DEPTH
        written == [l EXCEPT
                      !.TraceHistory =
                          Written(@, l.TraceCursor,
                                  [timestamp |-> t, unsaved |-> 1, id |-> id,
                                   propagate |-> 1]),
                      !.TraceCursor = next]
        sent == IF /\ Slot(written.TraceHistory, next).timestamp # 0
                   /\ Slot(written.TraceHistory, next).unsaved # 0
                THEN houselog_trace_flush(written, providers) ELSE written
    IN [sent EXCEPT !.TraceHistory = Erased(@, next), !.TraceLatestId = id]

houselog_trace(accepted) ==
    /\ log.initialized
    /\ log' = Traced(log, now, HistoryProviders(discovery, accepted))
    /\ UNCHANGED <<now, apart, discovery>>

houselog_event(accepted) ==
    /\ log.initialized
    /\ log' = houselog_event_new(log, now, 1,
                                 HistoryProviders(discovery, accepted))
    /\ UNCHANGED <<now, apart, discovery>>

houselog_event_local(accepted) ==
    /\ log.initialized
    /\ log' = houselog_event_new(log, now, 0,
                                 HistoryProviders(discovery, accepted))
    /\ UNCHANGED <<now, apart, discovery>>

\* houselog_background once houselog_storage_background has called
\* housediscover (d is the discovery client's data after it).
Background(l, t, providers) ==
    LET events_due == l.EventLastFlushed # l.EventLatestId
        waiting == events_due /\ t < l.EventLastFlushTime + EVENT_FLUSH_DELAY
        flushed == IF events_due
                   THEN [houselog_event_flush(l, providers) EXCEPT
                            !.EventLastFlushTime = t]
                   ELSE l
    IN IF waiting THEN l
       ELSE IF flushed.TraceLastFlushed # flushed.TraceLatestId
       THEN houselog_trace_flush(flushed, providers)
       ELSE flushed

houselog_background(reachable, accepted) ==
    /\ log.initialized
    /\ discovery' = Discover(Called(discovery), now, reachable)
    /\ log' = Background(log, now, HistoryProviders(discovery', accepted))
    /\ UNCHANGED <<now, apart>>

\* houselog_initialize: the first houselog_background, then the trace and
\* the event that mark the start.
houselog_initialize(reachable, accepted) ==
    /\ ~log.initialized
    /\ discovery' = Discover(Called(discovery), now, reachable)
    /\ LET providers == HistoryProviders(discovery', accepted)
           started == Background([log EXCEPT !.initialized = TRUE], now,
                                 providers)
       IN log' = houselog_event_new(Traced(started, now, providers), now, 1,
                                    providers)
    /\ UNCHANGED <<now, apart>>

(***************************************************************************)
(* Inputs: targets, paths, datagrams and configuration files.              *)
(***************************************************************************)
tgt1 == <<"9", "1">>                   \* a bare port: "h:91" once stored
tgt2 == <<"h", ":", "9", "2">>
pA == <<"/", "a">>
pAB == <<"/", "a", "/", "b">>
pAx == <<"/", "a", "x">>
pRoot == <<"/">>
svc == <<"s">>

\* A line of the file ends with a newline.
Line(words) == Join(words) \o <<"\n">>

\* "REDIRECT <timestamp> <target> [options] [service:]path ..."
LiveRedirect(target, options, items) ==
    Join(<<kREDIRECT, Itoa(Epoch), target>> \o options \o items)

\* "REDIRECT <target> [options] [service:]path ..."
StaticRedirect(target, options, items) ==
    Line(<<kREDIRECT, target>> \o options \o items)

\* The Portal before hp_redirect_start, the file being one of files.
InitPortal(files) ==
    /\ now = Epoch
    /\ pc = "start"
    /\ Redirections = <<>>
    /\ Peers = <<>>
    /\ IntermediateDecode = <<>>
    /\ RestrictUdp2Local = 0
    /\ ConfigurationTime = 0
    /\ LastCheck = 0
    /\ file \in [mtime : {Epoch - 1}, text : files]
    /\ events = <<>>

\* The same, with a service process that calls nothing.
InitOver(files) ==
    /\ InitPortal(files)
    /\ client = ClientStart
    /\ depot = DepotStart
    /\ discovery = DiscoveryStart
    /\ log = LogStart

(***************************************************************************)
(* Spec: the redirection table under live registrations, the clock and the *)
(* periodic reap.                                                          *)
(***************************************************************************)
\* Registrations of "/a", "/a/b", "/ax", and "/a" with "/a/b" in one datagram.
Datagrams ==
    { LiveRedirect(tgt1, <<>>, <<p>>) : p \in {pA, pAB, pAx} }
    \cup { LiveRedirect(tgt1, <<>>, <<pA, pAB>>) }

\* No permanent route, or the one character path "/" and an empty path.
Files ==
    { <<>>,
      << StaticRedirect(tgt1, <<>>, <<pRoot, svc \o <<":">> >>) >> }

Init == InitOver(Files)

Next ==
    \/ hp_redirect_start(HTTP_PORT)
    \/ \E buffer \in Datagrams : hp_redirect_udp(buffer)
    \/ hp_redirect_background
    \/ \E d \in Deltas : Tick(d)

Spec == Init /\ [][Next]_vars

(***************************************************************************)
(* Properties of the redirection table.                                    *)
(***************************************************************************)
\* The request URIs the resolution is checked on.
URIs ==
    { <<>>, <<"/">>, <<"/", "/">>, <<"/", "b">>,
      pA, pA \o <<"/">>, pAx, pAx \o <<"/", "b">>,
      pAB, pAB \o <<"x">>, pAB \o <<"/", "c">> }

\* The slots whose path is a prefix of uri followed by '/' or by the end.
Matching(R, uri) ==
    { i \in 1..Len(R) :
        /\ Len(R[i].path) <= Len(uri)
        /\ SubSeq(uri, 1, Len(R[i].path)) = R[i].path
        /\ \/ Len(uri) = Len(R[i].path)
           \/ uri[Len(R[i].path) + 1] = "/" }

\* found is a slot of S with the greatest path length, or 0 when S is empty.
Longest(R, S, found) ==
    IF S = {} THEN found = 0
    ELSE found \in S /\ \A j \in S : Len(R[j].path) <= Len(R[found].path)

\* C1 as stated, for the tables whose paths all have two characters or more
\* (the data model): for every URI the resolution returns the matching entry
\* with the longest path, and nil only when no entry matches.
C1_AnyEntry ==
    (\A i \in 1..Len(Redirections) : Len(Redirections[i].path) >= 2) =>
    \A uri \in URIs :
        Longest(Redirections, Matching(Redirections, uri),
                SearchBestRedirect(Redirections, now, uri))

\* The matching slots the resolution may return: the lease is not over and
\* the path is not empty.
Servable(R, t, uri) ==
    { i \in Matching(R, uri) :
        /\ R[i].path # <<>>
        /\ R[i].expiration = 0 \/ R[i].expiration >= t }

\* C1, amended: for every URI of two characters or more, the resolution
\* returns the longest matching entry among those whose lease is not over
\* (expiration 0 or >= now) and whose path is not empty, and nil only when
\* there is none; a shorter URI resolves to nil.
C1_LongestServable ==
    \A uri \in URIs :
        IF Len(uri) < 2
        THEN SearchBestRedirect(Redirections, now, uri) = 0
        ELSE Longest(Redirections, Servable(Redirections, now, uri),
                     SearchBestRedirect(Redirections, now, uri))

\* "/a", "/ax" and "/a/b" are all registered, "/a" is lapsed, and
\* "/a/b/c" resolves to "/a/b" while "/a/bx" resolves to nothing.
C1_Witness ==
    /\ \E i, j, k \in 1..Len(Redirections) :
          /\ Redirections[i].path = pA
          /\ Redirections[i].expiration < now
          /\ Redirections[j].path = pAB
          /\ Redirections[k].path = pAx
          /\ SearchBestRedirect(Redirections, now, pAB \o <<"/", "c">>) = j
    /\ SearchBestRedirect(Redirections, now, pAB \o <<"x">>) = 0

\* The number of events of s equal to e.
Count(s, e) == Cardinality({k \in 1..Len(s) : s[k] = e})

\* The paths of the table.
PathsOf(R) == {R[i].path : i \in 1..Len(R)}

\* C2 as stated, for the schedules with no change of the configuration
\* file: an entry created at t0 and not renewed (expiration = start + 180)
\* stays in the table and is resolved at every time <= t0 + 180, is never
\* resolved after t0 + 180, and its removal logs one ROUTE/REMOVED event.
C2_ValidThroughLease ==
    [][ (pc = "run" /\ pc' = "run" /\ ConfigurationTime = file.mtime) =>
        \A i \in 1..Len(Redirections) :
            LET e == Redirections[i]
            IN e.expiration = e.start + REDIRECT_LIFETIME =>
               /\ now' <= e.expiration =>
                     /\ e.path \in PathsOf(Redirections')
                     /\ SearchBestRedirect(Redirections', now', e.path) # 0
               /\ now' > e.expiration =>
                     \A uri \in URIs :
                         LET f == SearchBestRedirect(Redirections', now', uri)
                         IN f # 0 => Redirections'[f].path # e.path
               /\ e.path \notin PathsOf(Redirections') =>
                     Count(events', Event("ROUTE", e.path, "REMOVED")) = 1
      ]_vars

\* The slots the reap at time t removes.
Reaped(R, t) == {i \in 1..Len(R) : 0 < R[i].expiration /\ R[i].expiration <= t}

\* C7: the periodic reap at time now (the configuration file has not
\* changed) removes exactly the entries with 0 < expiration <= now, logs one
\* ROUTE/REMOVED event for each and no other, and leaves every other entry
\* in the table with all its fields.
C7_ReapExactlyLapsed ==
    [][ (hp_redirect_background /\ now > LastCheck + CHECK_PERIOD
            /\ ConfigurationTime = file.mtime) =>
        LET gone == Reaped(Redirections, now)
            kept == (1..Len(Redirections)) \ gone
        IN /\ Len(Redirections') = Cardinality(kept)
           /\ {Redirections'[j] : j \in 1..Len(Redirections')}
                 = {Redirections[i] : i \in kept}
           /\ \A i \in gone :
                 Count(events', Event("ROUTE", Redirections[i].path, "REMOVED")) = 1
           /\ Cardinality({k \in 1..Len(events') : events'[k][3] = "REMOVED"})
                 = Cardinality(gone)
      ]_vars

\* A reap has just removed the entry whose lease ended at this very second
\* and kept a permanent entry and a live one.
C7_Witness ==
    /\ LastCheck = now
    /\ \E p \in {pA, pAB, pAx} :
          /\ Count(events, Event("ROUTE", p, "REMOVED")) = 1
          /\ p \notin PathsOf(Redirections)
    /\ \E i, j \in 1..Len(Redirections) :
          /\ Redirections[i].expiration = 0
          /\ Redirections[j].expiration > now

(***************************************************************************)
(* SpecRenew: renewals of a live and of a permanent entry, with reloads of *)
(* the configuration file.                                                 *)
(***************************************************************************)
pid7 == kPID \o <<"7">>
pid8 == kPID \o <<"8">>
Service(service, path) == service \o <<":">> \o path

DatagramsRenew ==
    { LiveRedirect(tgt1, <<pid7>>, <<pAB>>),
      LiveRedirect(tgt1, <<pid8>>, <<pAB>>),
      LiveRedirect(tgt2, <<pid7>>, <<pAB>>),
      LiveRedirect(tgt1, <<kHIDE>>, <<Service(svc, pAB)>>),
      LiveRedirect(tgt2, <<kHIDE, pid8>>, <<Service(svc, pA)>>),
      LiveRedirect(tgt2, <<kHIDE, pid8>>, <<Service(svc, pA), Service(svc, pAB)>>) }

\* "/a" is permanent in both files, with another target, service and option.
FilesRenew ==
    { << StaticRedirect(tgt1, <<>>, <<pA>>) >>,
      << StaticRedirect(tgt2, <<kHIDE>>, <<Service(svc, pA)>>) >> }

DeltasRenew == {90}

InitRenew == InitOver(FilesRenew)

NextRenew ==
    \/ hp_redirect_start(HTTP_PORT)
    \/ \E buffer \in DatagramsRenew : hp_redirect_udp(buffer)
    \/ hp_redirect_background
    \/ \E d \in DeltasRenew : Tick(d)
    \/ \E text \in FilesRenew : EditConfig(text)

SpecRenew == InitRenew /\ [][NextRenew]_vars

\* C4: a datagram leaves every permanent entry as it is, in its slot: a live
\* REDIRECT for the path of a permanent entry changes none of its fields.
\* (Written "kept, or no datagram step": the cheap side is evaluated first.)
C4_PermanentUntouched ==
    [][ \/ \A i \in 1..Len(Redirections) :
              Redirections[i].expiration = 0 =>
                  /\ i <= Len(Redirections')
                  /\ Redirections'[i] = Redirections[i]
        \/ ~(\E buffer \in DatagramsRenew : hp_redirect_udp(buffer))
      ]_vars

\* The datagram that registers "/a" and "/a/b" with another target, HIDE and
\* a pid has just added "/a/b", and the permanent "/a" is as the file made it.
C4_Witness ==
    /\ events = <<Event("ROUTE", pAB, "ADD")>>
    /\ \E i, j \in 1..Len(Redirections) :
          /\ Redirections[i].path = pA
          /\ Redirections[i].expiration = 0
          /\ Redirections[i].target = FullTarget(tgt1)
          /\ Redirections[i].hide = 0
          /\ Redirections[i].pid = 0
          /\ Redirections[i].service = Null
          /\ Redirections[j].path = pAB
          /\ Redirections[j].target = tgt2
          /\ Redirections[j].pid = 8

\* C6: across any step, an entry that stays in the table has its start set
\* to now when its target or its pid changed, and keeps its start otherwise.
C6_StartFollowsRestart ==
    [][ \A i \in 1..Len(Redirections) : \A j \in 1..Len(Redirections') :
            Redirections'[j].path = Redirections[i].path =>
                IF \/ Redirections'[j].target # Redirections[i].target
                   \/ Redirections'[j].pid # Redirections[i].pid
                THEN Redirections'[j].start = now'
                ELSE Redirections'[j].start = Redirections[i].start
      ]_vars

\* "/a/b" registered with pid 7 has been renewed at a later time by the
\* datagram that gives no pid and changes the service and the hide option:
\* start is still the time of the registration.
C6_Witness ==
    \E i \in 1..Len(Redirections) :
        /\ Redirections[i].path = pAB
        /\ Redirections[i].target = FullTarget(tgt1)
        /\ Redirections[i].pid = 7
        /\ Redirections[i].hide = 1
        /\ Redirections[i].service = svc
        /\ Redirections[i].start < now
        /\ Redirections[i].expiration = now + REDIRECT_LIFETIME

(***************************************************************************)
(* SpecSign: signed and unsigned datagrams against zero, one or two keys,   *)
(* within one second of the clock (one reload of the file at most).        *)
(***************************************************************************)
key1 == <<"0", "0", "1", "1">>
key2 == <<"2", "2", "3", "3">>
key3 == <<"4", "4", "5", "5">>
peerX == <<"x">>
peerY == <<"y">>
peerQ == <<"q">>

\* The datagram that carries body and its signature under hexkey, as the
\* client library sends it: "<body> SHA-256 <signature>".
Signed(body, hexkey) ==
    body \o sha256mark \o houseportalhmac(kSHA256, hexkey, body)

\* "SIGN <method> <hexkey>"
SignLine(method, hexkey) == Line(<<kSIGN, method, hexkey>>)

\* "PEER <timestamp> <sender> <peer>[=<expiration>] ..."
LivePeer(items) == Join(<<kPEER, Itoa(Epoch)>> \o items)

bodyA == LiveRedirect(tgt1, <<>>, <<pA>>)
bodyAB == LiveRedirect(tgt1, <<>>, <<pAB>>)
bodyPeer == LivePeer(<<peerQ, peerX>>)

\* Unsigned, signed with the first, the second or an unknown key, signed
\* over another body, and with an empty signature.
DatagramsSign ==
    { bodyA, bodyPeer,
      Signed(bodyA, key1),
      Signed(bodyAB, key2),
      Signed(bodyPeer, key2),
      Signed(bodyA, key3),
      bodyAB \o sha256mark \o houseportalhmac(kSHA256, key1, bodyA),
      bodyA \o sha256mark }

\* No key, one key, two keys, and a key of an unsupported method.
FilesSign ==
    { << StaticRedirect(tgt1, <<>>, <<pAx>>) >>,
      << SignLine(kSHA256, key1) >>,
      << SignLine(kSHA256, key1), SignLine(kSHA256, key2) >>,
      << SignLine(<<"M", "D", "5">>, key2) >> }

InitSign == InitOver(FilesSign)

NextSign ==
    \/ hp_redirect_start(HTTP_PORT)
    \/ \E buffer \in DatagramsSign : hp_redirect_udp(buffer)
    \/ hp_redirect_background
    \/ \E text \in FilesSign : EditConfig(text)

SpecSign == InitSign /\ [][NextSign]_vars

\* The datagram ends with " SHA-256 <signature>" where the signature is the
\* digest, under some configured key, of what precedes that suffix.
Verified(K, buffer) ==
    LET last == Len(buffer) - Len(sha256mark) + 1
        mark(c) == SubSeq(buffer, c, c + Len(sha256mark) - 1) = sha256mark
    IN \E c \in 1..last : \E i \in 1..Len(K) :
          /\ mark(c)
          /\ \A b \in 1..(c - 1) : ~mark(b)
          /\ SubSeq(buffer, c + Len(sha256mark), Len(buffer))
                = houseportalhmac(K[i].method, K[i].value, SubSeq(buffer, 1, c - 1))

\* C3: a datagram changes the redirection table or the peer table only if
\* no key is configured or the datagram is signed with a configured key.
\* (Written "unchanged, or ...": the cheap side is evaluated first.)
C3_OnlySignedChanges ==
    [][ \/ Redirections' = Redirections /\ Peers' = Peers
        \/ \A buffer \in DatagramsSign :
              \/ IntermediateDecode = <<>>
              \/ Verified(IntermediateDecode, buffer)
              \/ ~hp_redirect_udp(buffer)
      ]_vars

\* With two keys configured, the datagram signed with the second key has
\* just registered "/a/b".
C3_Witness ==
    /\ Len(IntermediateDecode) = 2
    /\ events = <<Event("ROUTE", pAB, "ADD")>>
    /\ \E i \in 1..Len(Redirections) :
          Redirections[i].path = pAB /\ Redirections[i].start = now

(***************************************************************************)
(* SpecPeers: PEER datagrams about a static peer and a gossiped one.       *)
(***************************************************************************)
\* "<name>=<expiration>"
PeerLease(name, expiration) == name \o <<"=">> \o Itoa(expiration)

\* The names a PEER datagram reports on, and the leases it reports.
GossipNames == {peerX, peerY}
GossipLeases == {Epoch + 100, Epoch + 200, Epoch + 300}

\* Sent by the Portal "q": one peer with its lease, or one bare name.
DatagramsPeers ==
    { LivePeer(<<peerQ, PeerLease(n, t)>>) : n \in GossipNames, t \in GossipLeases }
    \cup { LivePeer(<<peerQ, n>>) : n \in GossipNames }

\* "PEER <host> ...": "y" is a static peer in the second file.
FilesPeers ==
    { <<>>, << Line(<<kPEER, peerY>>) >> }

InitPeers == InitOver(FilesPeers)

NextPeers ==
    \/ hp_redirect_start(HTTP_PORT)
    \/ \E buffer \in DatagramsPeers : hp_redirect_udp(buffer)
    \/ hp_redirect_background
    \/ \E d \in Deltas : Tick(d)

SpecPeers == InitPeers /\ [][NextPeers]_vars

\* The lease of the peer called name, -1 when it is not known.
LeaseOf(P, name) ==
    IF \E i \in 1..Len(P) : P[i].name = name
    THEN P[CHOOSE i \in 1..Len(P) : P[i].name = name].expiration
    ELSE -1

\* C10: a PEER datagram that reports lease t2 for a known peer with lease t1
\* sets the lease to t2 when t2 > t1 > 0 and leaves it otherwise (t2 < t1, or
\* t1 = 0: a static peer); and no datagram lowers the lease of any peer.
\* (Written "..., or no such datagram step".)
C10_LeaseOnlyRaised ==
    [][ /\ \A n \in GossipNames : \A t2 \in GossipLeases :
              LET t1 == LeaseOf(Peers, n)
              IN \/ t1 = -1
                 \/ LeaseOf(Peers', n) = IF t2 > t1 /\ t1 > 0 THEN t2 ELSE t1
                 \/ ~hp_redirect_udp(LivePeer(<<peerQ, PeerLease(n, t2)>>))
        /\ \/ \A i \in 1..Len(Peers) :
                 /\ i <= Len(Peers')
                 /\ Peers'[i].name = Peers[i].name
                 /\ Peers'[i].expiration >= Peers[i].expiration
                 /\ Peers[i].expiration = 0 => Peers'[i].expiration = 0
           \/ ~(\E buffer \in DatagramsPeers : hp_redirect_udp(buffer))
      ]_vars

\* The lease of "x" had lapsed and a datagram has just raised it to the
\* latest lease, while "y" is a static peer.
C10_Witness ==
    /\ events = <<Event("PEER", peerX, "RECOVER")>>
    /\ LeaseOf(Peers, peerX) = Epoch + 300
    /\ LeaseOf(Peers, peerY) = 0

\* C11 as stated: a PEER datagram that reports lease t2 for a peer adds or
\* refreshes it with t2 when t2 is in the future and with now + 180
\* otherwise, so that the lease it gives is never in the past.
C11_LeaseInFuture ==
    [][ \A n \in GossipNames : \A t2 \in GossipLeases :
            \/ LeaseOf(Peers', n) = LeaseOf(Peers, n)
            \/ /\ LeaseOf(Peers', n) =
                      IF t2 > now THEN t2 ELSE now + REDIRECT_LIFETIME
               /\ LeaseOf(Peers', n) > now
            \/ ~hp_redirect_udp(LivePeer(<<peerQ, PeerLease(n, t2)>>))
      ]_vars

\* C12 as stated: a pass of the background function logs PEER/EXPIRE once
\* for each peer with 1 < expiration <= now and sets its expiration to 1, and
\* logs nothing for the other peers (expiration 0, 1, or in the future); a
\* datagram that refreshes a peer whose lease was over gives it a lease in
\* the future and logs PEER/RECOVER.
C12_ExpireOnce ==
    [][ /\ \A i \in 1..Len(Peers) :
              LET e == Peers[i].expiration
                  logged == Count(events', Event("PEER", Peers[i].name, "EXPIRE"))
              IN \/ IF 1 < e /\ e <= now
                    THEN Peers'[i].expiration = 1 /\ logged = 1
                    ELSE Peers'[i].expiration = e /\ logged = 0
                 \/ ~hp_redirect_background
        /\ \A i \in 1..Len(Peers) :
              LET e == Peers[i].expiration
              IN \/ Peers'[i].expiration = e
                 \/ e > now
                 \/ /\ Peers'[i].expiration > now
                    /\ Count(events', Event("PEER", Peers[i].name, "RECOVER")) = 1
                 \/ ~(\E buffer \in DatagramsPeers : hp_redirect_udp(buffer))
      ]_vars

(***************************************************************************)
(* SpecPort: the Portal's own name in PEER datagrams and directives, for   *)
(* a Portal on the default HTTP port and for one on another port.          *)
(***************************************************************************)
\* An HTTP port other than the default one.
OtherPort == 8080

Ports == {HTTP_PORT, OtherPort}

\* The names that designate the local host: bare, or with a port.
LocalNames == {HostName} \cup {SelfName(port) : port \in Ports}

\* The Portal's own broadcast looped back, and the datagrams of the Portal
\* "q" that lists the local host, with a lease or without.
DatagramsPort ==
    { LivePeer(<<n, peerQ>>) : n \in LocalNames }
    \cup { LivePeer(<<peerQ, n>>) : n \in LocalNames }
    \cup { LivePeer(<<peerQ, PeerLease(n, Epoch + 300)>>) : n \in LocalNames }

\* No directive, and "PEER q h".
FilesPort == { <<>>, << Line(<<kPEER, peerQ, HostName>>) >> }

InitPort == InitOver(FilesPort)

NextPort ==
    \/ \E port \in Ports : hp_redirect_start(port)
    \/ \E buffer \in DatagramsPort : hp_redirect_udp(buffer)
    \/ hp_redirect_background
    \/ \E d \in Deltas : Tick(d)

SpecPort == InitPort /\ [][NextPort]_vars

\* C14 as stated: apart from the first entry, the one hp_redirect_start
\* creates, no entry of the peer table names this Portal, by the bare host
\* name or by the host:port under which it lists itself.
C14_NoSelfPeer ==
    \A i \in 2..Len(Peers) : Peers[i].name \notin {HostName, Peers[1].name}

(***************************************************************************)
(* SpecTwo: the Portal A (this one) and a Portal B that publishes, then    *)
(* stops. B is a static peer of A in the second file.                      *)
(***************************************************************************)
peerB == <<"b">>

\* The PEER packet of B: itself first, then A, which is static at B.
PacketOfB == LivePeer(<<peerB, HostName>>)

\* B publishes until the clock first advances.
BPublishes == now = Epoch /\ hp_redirect_udp(PacketOfB)

DatagramsTwo ==
    { LivePeer(<<peerQ, peerX>>), LivePeer(<<peerQ, PeerLease(peerX, Epoch + 300)>>) }

FilesTwo == { <<>>, << Line(<<kPEER, peerB>>) >> }

DeltasTwo == {91}

InitTwo == InitOver(FilesTwo)

NextTwo ==
    \/ hp_redirect_start(HTTP_PORT)
    \/ BPublishes
    \/ \E buffer \in DatagramsTwo : hp_redirect_udp(buffer)
    \/ hp_redirect_background
    \/ \E d \in DeltasTwo : Tick(d)

\* The main loop calls hp_redirect_background again and again, and the clock
\* advances.
SpecTwo ==
    /\ InitTwo /\ [][NextTwo]_vars
    /\ WF_vars(hp_redirect_background)
    /\ WF_vars(\E d \in DeltasTwo : Tick(d))

\* The names in the answer to GET /portal/peers.
Listed == {hp_redirect_peers_json(Peers, now)[k] :
              k \in 1..Len(hp_redirect_peers_json(Peers, now))}

\* C13 as stated: B being a static peer of A, its expiration at A becomes 1
\* once it has stopped publishing, and A still lists it.
C13_StaticPeerExpires ==
    (LeaseOf(Peers, peerB) = 0) ~> (LeaseOf(Peers, peerB) = 1 /\ peerB \in Listed)

\* C13: when A knows B from B's packets only, the lease of B is 180 s from
\* its last packet; the first pass of the background function after that
\* time logs PEER/EXPIRE for B and sets its expiration to 1, and this pass
\* does come; from then on B is in the table but not in the answer to
\* GET /portal/peers. When B is a static peer of A its expiration stays 0
\* and it stays listed.
C13_GossipedPeerExpires ==
    /\ (LeaseOf(Peers, peerB) > 1) ~> (LeaseOf(Peers, peerB) = 1)
    /\ [](LeaseOf(Peers, peerB) > 1 =>
              LeaseOf(Peers, peerB) = Epoch + REDIRECT_LIFETIME)
    /\ [](LeaseOf(Peers, peerB) = 1 => peerB \notin Listed)
    /\ [](LeaseOf(Peers, peerB) = 0 => peerB \in Listed)
    /\ [][ /\ LeaseOf(Peers, peerB) \in {0, 1} =>
                 LeaseOf(Peers', peerB) = LeaseOf(Peers, peerB)
           /\ \/ /\ LeaseOf(Peers', peerB) = 1
                 /\ Count(events', Event("PEER", peerB, "EXPIRE")) = 1
              \/ ~(1 < LeaseOf(Peers, peerB) /\ LeaseOf(Peers, peerB) < now)
              \/ ~hp_redirect_background
         ]_vars

\* The pass that has just expired B: B is in the table and is not listed.
C13_Witness ==
    /\ events = <<Event("PEER", peerB, "EXPIRE")>>
    /\ LeaseOf(Peers, peerB) = 1
    /\ peerB \notin Listed
    /\ HostName \in Listed

(***************************************************************************)
(* SpecDispatch: HTTP requests over tables that hold live and permanent    *)
(* entries, with and without HIDE.                                         *)
(***************************************************************************)
FilesDispatch == { <<>>, << StaticRedirect(tgt1, <<kHIDE>>, <<pA>>) >> }

DatagramsDispatch ==
    { LiveRedirect(tgt2, <<kHIDE>>, <<pAB>>),
      LiveRedirect(tgt2, <<>>, <<pA>>),
      LiveRedirect(tgt1, <<>>, <<pAx>>) }

\* The query strings of the requests: none, and "id=7".
Queries == { <<>>, <<"i", "d", "=", "7">> }

InitDispatch == InitOver(FilesDispatch)

NextDispatch ==
    \/ hp_redirect_start(HTTP_PORT)
    \/ \E buffer \in DatagramsDispatch : hp_redirect_udp(buffer)
    \/ hp_redirect_background
    \/ \E d \in Deltas : Tick(d)

SpecDispatch == InitDispatch /\ [][NextDispatch]_vars

\* C15: a request whose URI resolves to entry e is answered with a redirect
\* to http://<e.target><uri'>[?<query>], uri' being the URI, or the URI less
\* the matched prefix ("/" when nothing remains) when e.hide is set, with
\* status 302 when e is live and 301 when it is permanent; a request that
\* resolves to nothing is answered 500 "Unresolvable redirection.".
C15_Dispatch ==
    \A uri \in URIs : \A query \in Queries :
        LET e == SearchBestRedirect(Redirections, now, uri)
            answer == RedirectRoute(Redirections, now, uri, query)
            path == Redirections[e].path
            rest == SubSeq(uri, Len(path) + 1, Len(uri))
            shown == IF Redirections[e].hide = 0 THEN uri
                     ELSE IF rest = <<>> THEN <<"/">> ELSE rest
            asked == IF query = <<>> THEN <<>> ELSE <<"?">> \o query
        IN IF e = 0
           THEN answer = [status |-> 500, text |-> kUnresolvable]
           ELSE /\ answer.text = kHttp \o Redirections[e].target \o shown \o asked
                /\ answer.status = IF Redirections[e].expiration = 0 THEN 301 ELSE 302

\* "/a/b" is live and hidden, "/a" permanent and hidden: "/a/b" is sent to
\* the root of h:92 with 302, "/ax/b" is not served, and "/a/" is sent to the
\* root of h:91 with 301, the query after it.
C15_Witness ==
    /\ RedirectRoute(Redirections, now, pAB, <<>>) =
          [status |-> 302,
           text |-> kHttp \o tgt2 \o <<"/">>]
    /\ RedirectRoute(Redirections, now, pAB \o <<"/", "c">>, <<>>) =
          [status |-> 302,
           text |-> kHttp \o tgt2 \o <<"/", "c">>]
    /\ RedirectRoute(Redirections, now, pAx \o <<"/", "b">>, <<>>).status = 500
    /\ RedirectRoute(Redirections, now, pA \o <<"/">>, <<"i", "d", "=", "7">>) =
          [status |-> 301,
           text |-> kHttp \o HostName \o <<":">> \o tgt1
                    \o <<"/", "?", "i", "d", "=", "7">>]

(***************************************************************************)
(* SpecReload: the configuration file is rewritten while the Portal runs,  *)
(* with valid and with invalid contents.                                   *)
(***************************************************************************)
\* "/p<n>"
NumberedPath(n) == <<"/", "p">> \o Itoa(n)

FilesValid ==
    { << StaticRedirect(tgt1, <<>>, <<pA>>) >>,
      << Line(<<<<"#">>, svc>>),
         SignLine(kSHA256, key1),
         Line(<<kLOCAL>>),
         StaticRedirect(tgt2, <<kHIDE>>, <<Service(svc, pAB)>>) >> }

\* An unknown keyword, a REDIRECT with no path, a PEER with no host, and a
\* line of 130 tokens.
FilesInvalid ==
    { << StaticRedirect(tgt1, <<>>, <<pA>>), Line(<<<<"B", "O", "G", "U", "S">>, svc>>) >>,
      << Line(<<kREDIRECT, tgt1>>) >>,
      << Line(<<kPEER>>) >>,
      << StaticRedirect(tgt1, <<>>, [n \in 1..REDIRECT_MAX |-> NumberedPath(n)]) >> }

FilesReload == FilesValid \cup FilesInvalid

DatagramsReload ==
    { LiveRedirect(tgt2, <<>>, <<pA>>),
      LiveRedirect(tgt1, <<>>, <<pAB>>) }

\* A lease is over when the clock has advanced once.
DeltasReload == {REDIRECT_LIFETIME + 1}

InitReload == InitOver(FilesReload)

NextReload ==
    \/ hp_redirect_start(HTTP_PORT)
    \/ \E buffer \in DatagramsReload : hp_redirect_udp(buffer)
    \/ hp_redirect_background
    \/ \E d \in DeltasReload : Tick(d)
    \/ \E text \in FilesReload : EditConfig(text)

SpecReload == InitReload /\ [][NextReload]_vars

\* C5: no two entries of the redirection table have the same path.
C5_UniquePaths ==
    \A i, j \in 1..Len(Redirections) :
        Redirections[i].path = Redirections[j].path => i = j

\* An entry whose lease was over (the clock has advanced by 181 since its
\* registration, the only step of the clock here) has just been renewed in
\* place, in a table that holds another entry too.
C5_Witness ==
    /\ Len(Redirections) >= 2
    /\ \E i \in 1..Len(Redirections) :
          /\ Redirections[i].start = now - (REDIRECT_LIFETIME + 1)
          /\ Redirections[i].expiration = now + REDIRECT_LIFETIME

\* The permanent entries of the table.
Permanent(R) == {R[i] : i \in {k \in 1..Len(R) : R[k].expiration = 0}}

\* C8 as stated: a pass of the background function over an invalid file
\* leaves the process running with its permanent redirections, its keys and
\* its LOCAL mode; the process exits on a parse error only from startup.
C8_InvalidReloadKeepsConfig ==
    [][ /\ (pc = "run" /\ file.text \in FilesInvalid /\ hp_redirect_background) =>
              /\ pc' = "run"
              /\ Permanent(Redirections') = Permanent(Redirections)
              /\ IntermediateDecode' = IntermediateDecode
              /\ RestrictUdp2Local' = RestrictUdp2Local
        /\ pc' = "exit" => pc \in {"start", "exit"}
      ]_vars

(***************************************************************************)
(* SpecFull: reloads of the configuration file with the redirection table  *)
(* at its capacity.                                                        *)
(***************************************************************************)
\* The paths per REDIRECT line of the large file, and its number of lines.
PathsPerLine == 16
FullLines == REDIRECT_MAX \div PathsPerLine

\* A file that declares REDIRECT_MAX paths, PathsPerLine on each line.
FileFull ==
    [k \in 1..FullLines |->
        StaticRedirect(tgt1, <<>>,
            [n \in 1..PathsPerLine |-> NumberedPath(PathsPerLine * (k - 1) + n)])]

FilesFull ==
    { FileFull,
      << StaticRedirect(tgt1, <<>>, <<pA>>) >>,
      << StaticRedirect(tgt2, <<>>, <<NumberedPath(1), pAB>>) >> }

DatagramsFull == { LiveRedirect(tgt2, <<>>, <<pAx>>) }

DeltasFull == {91}

InitFull == InitOver(FilesFull)

NextFull ==
    \/ hp_redirect_start(HTTP_PORT)
    \/ \E buffer \in DatagramsFull : hp_redirect_udp(buffer)
    \/ hp_redirect_background
    \/ \E d \in DeltasFull : Tick(d)
    \/ \E text \in FilesFull : EditConfig(text)

SpecFull == InitFull /\ [][NextFull]_vars

\* The paths that the REDIRECT directives of a file declare: those of the
\* table once the file is loaded by a Portal that holds nothing.
Declared(text) ==
    PathsOf(LoadConfig(Portal(<<>>, <<>>, <<>>, 0, <<>>, FALSE), now, text).R)

\* A pass of the background function that reloads the file.
Reloading ==
    /\ now > LastCheck + CHECK_PERIOD
    /\ ConfigurationTime # file.mtime
    /\ hp_redirect_background

\* C9 as stated: once a reload completes, the paths of the permanent entries
\* are exactly the paths that the new file declares, whatever the table held
\* before the reload.
C9_ReloadMatchesFile ==
    [][ (Reloading /\ pc' = "run") =>
            PathsOf(SelectSeq(Redirections', LAMBDA e : e.expiration = 0))
                = Declared(file.text)
      ]_vars

(***************************************************************************)
(* SpecCap: datagrams received with the redirection table and the peer     *)
(* table one entry short of their capacity.                                *)
(***************************************************************************)
NumberedName(n) == <<"n">> \o Itoa(n)

\* The lines "<head> <item 1> ..." that list n items, PathsPerLine a line.
LinesOf(head, item(_), n) ==
    [k \in 1..((n + PathsPerLine - 1) \div PathsPerLine) |->
        Line(head \o [j \in 1..Min(PathsPerLine, n - PathsPerLine * (k - 1)) |->
                         item(PathsPerLine * (k - 1) + j)])]

\* A file that leaves one slot free in each table: REDIRECT_MAX - 1 paths,
\* and REDIRECT_MAX - 2 static peers next to the Portal itself.
FileCap ==
    LinesOf(<<kREDIRECT, tgt1>>, NumberedPath, REDIRECT_MAX - 1)
    \o LinesOf(<<kPEER>>, NumberedName, REDIRECT_MAX - 2)

pAy == <<"/", "a", "y">>

Targets == {tgt1, tgt2}

\* Two services for "/ax", one for "/ay"; the Portals "q" and "x".
DatagramsCap ==
    { LiveRedirect(target, <<>>, <<pAx>>) : target \in Targets }
    \cup { LiveRedirect(tgt1, <<>>, <<pAy>>),
           LivePeer(<<peerQ>>), LivePeer(<<peerX>>) }

DeltasCap == {91}

InitCap == InitOver({FileCap})

NextCap ==
    \/ hp_redirect_start(HTTP_PORT)
    \/ \E buffer \in DatagramsCap : hp_redirect_udp(buffer)
    \/ hp_redirect_background
    \/ \E d \in DeltasCap : Tick(d)

SpecCap == InitCap /\ [][NextCap]_vars

\* The slot of R that holds path, 0 when there is none.
SlotOf(R, path) ==
    IF \E i \in 1..Len(R) : R[i].path = path
    THEN CHOOSE i \in 1..Len(R) : R[i].path = path
    ELSE 0

\* C16: no table ever holds more than 128 entries; a datagram received with
\* the redirection table full adds no path and changes no entry but the one
\* it renews, whose target and lease it does set; a datagram received with
\* the peer table full adds no peer and changes no peer but the one it
\* refreshes.
C16_Capacity ==
    /\ [](Len(Redirections) <= REDIRECT_MAX /\ Len(Peers) <= REDIRECT_MAX)
    /\ [][ \A path \in {pAx, pAy} : \A target \in Targets :
             LET i == SlotOf(Redirections, path)
             IN \/ Len(Redirections) < REDIRECT_MAX
                \/ /\ Len(Redirections') = REDIRECT_MAX
                   /\ \A k \in 1..REDIRECT_MAX :
                         k # i => Redirections'[k] = Redirections[k]
                   /\ i # 0 =>
                         /\ Redirections'[i].path = path
                         /\ Redirections'[i].target = FullTarget(target)
                         /\ Redirections'[i].expiration = now + REDIRECT_LIFETIME
                \/ LiveRedirect(target, <<>>, <<path>>) \notin DatagramsCap
                \/ ~hp_redirect_udp(LiveRedirect(target, <<>>, <<path>>))
         ]_vars
    /\ [][ \A name \in {peerQ, peerX} :
             LET i == FindPeer(Peers, name)
             IN \/ Len(Peers) < REDIRECT_MAX
                \/ /\ Len(Peers') = REDIRECT_MAX
                   /\ \A k \in 1..REDIRECT_MAX : k # i => Peers'[k] = Peers[k]
                   /\ i # 0 =>
                         /\ Peers'[i].name = name
                         /\ Peers'[i].expiration = now + REDIRECT_LIFETIME
                \/ ~hp_redirect_udp(LivePeer(<<name>>))
         ]_vars

\* Both tables are full; "/ax" was registered by one service and has just
\* been taken over by the other, at a later time.
C16_Witness ==
    /\ Len(Redirections) = REDIRECT_MAX
    /\ Len(Peers) = REDIRECT_MAX
    /\ events = <<Event("ROUTE", pAx, "RESTARTED")>>
    /\ \E i \in 1..Len(Redirections) :
          /\ Redirections[i].path = pAx
          /\ Redirections[i].start = now
          /\ now > Epoch

(***************************************************************************)
(* SpecSigned: a service process that signs its registrations and a Portal *)
(* that requires signatures, on the same host.                             *)
(***************************************************************************)
key16 == [k \in 1..16 |-> "a"]
key17 == [k \in 1..16 |-> "b"]

\* "/<k>" followed by as many "p" as a path of n characters needs.
Padded(n, k) == <<"/">> \o Itoa(k) \o [j \in 1..(n - 1 - Len(Itoa(k))) |-> "p"]

\* count distinct paths of n characters each.
PathList(count, n) == [k \in 1..count |-> Padded(n, 10 + k)]

\* One path, two paths, and twenty paths of 67 characters.
PathsSigned == { <<pA>>, <<pA, pAB>>, PathList(20, 67) }

FilesSigned == { << SignLine(kSHA256, key16) >>,
                 << SignLine(kSHA256, key16), SignLine(kSHA256, key17) >> }

\* The Portal receives one of the datagrams that the service process sent.
Delivered == \E i \in 1..Len(client.sent) : hp_redirect_udp(client.sent[i])

InitSigned == InitOver(FilesSigned)

NextSigned ==
    \/ hp_redirect_start(HTTP_PORT)
    \/ houseportal_initialize(<<>>, FALSE)
    \/ \E key \in {key16, key17} : houseportal_signature(kSHA256, key)
    \/ \E path \in PathsSigned : houseportal_declare(OtherPort, path)
    \/ \E path \in PathsSigned :
          Len(client.Registration) < 2 /\ houseportal_declare_more(OtherPort, path)
    \/ houseportal_renew
    \/ Delivered
    \/ hp_redirect_background
    \/ \E d \in {91} : Tick(d)

SpecSigned == InitSigned /\ [][NextSigned]_vars

\* The service process signs with a key that the Portal holds.
SharedKey ==
    /\ client.TemporaryLength # 0
    /\ \E k \in 1..Len(IntermediateDecode) :
          /\ StrEq(IntermediateDecode[k].method, client.SecondaryBuffer)
          /\ StrEq(IntermediateDecode[k].value, client.TemporaryBuffer)

\* The length of " SHA-256 " and of the signature that follows it.
SuffixLength == Len(sha256mark) + Len(houseportalhmac(kSHA256, key16, <<>>))

\* C17: every datagram that houseportal_renew signed with a key of the
\* Portal passes the Portal's inspection once received, and what the Portal
\* then decodes is the text that was signed (the datagram less its signature
\* suffix).
C17_RoundTrip ==
    \A i \in 1..Len(client.sent) :
        LET buffer == Received(client.sent[i])
        IN SharedKey =>
              /\ hp_redirect_inspect(IntermediateDecode, buffer)
              /\ Payload(buffer)
                    = Take(client.sent[i], Len(client.sent[i]) - SuffixLength)

\* C18: every datagram that houseportal_renew sends, prefix and signature
\* suffix included, is at most HOUSEPORTALPACKET bytes long.
C18_DatagramFits ==
    \A i \in 1..Len(client.sent) : Len(client.sent[i]) <= HOUSEPORTALPACKET

(***************************************************************************)
(* SpecMap: a service process started with -portal-map options, ports up   *)
(* to 65535.                                                               *)
(***************************************************************************)
\* "-portal-map=<external>:<internal>"
PortMap(external, internal) == [external |-> external, internal |-> internal]

\* No mapping, one mapping, two mappings; ports below and above 32767.
MapOptions ==
    { <<>>,
      << PortMap(8443, OtherPort) >>,
      << PortMap(8443, OtherPort), PortMap(443, HTTP_PORT) >>,
      << PortMap(8443, 40000) >>,
      << PortMap(40000, OtherPort) >> }

WebPorts == { HTTP_PORT, OtherPort, 32767, 40000 }

PathsMap == { <<pA>>, <<pA, pAB>> }

InitMap == InitOver({<<>>})

NextMap ==
    \/ \E argv \in MapOptions, server \in BOOLEAN : houseportal_initialize(argv, server)
    \/ \E webport \in WebPorts, path \in PathsMap : houseportal_declare(webport, path)
    \/ \E webport \in WebPorts, path \in PathsMap :
          Len(client.Registration) < 2 /\ houseportal_declare_more(webport, path)
    \/ houseportal_renew

SpecMap == InitMap /\ [][NextMap]_vars

\* The registration opens with the target "[host:]port PID:pid ".
Advertises(registration, host, port) ==
    LET target == Destination(host, port) \o <<" ">>
    IN StrnEq(registration, target, Len(target))

\* C19: every registration that houseportal_declare builds for webport
\* advertises the external port of the first -portal-map option whose
\* internal port is webport, and webport itself when no option has it.
\* (Written "advertised, or not declared": the cheap side comes first.)
C19_PortMapped ==
    [][ \A webport \in WebPorts, path \in PathsMap :
           \/ \A i \in 1..Len(client'.Registration) :
                 Advertises(client'.Registration[i], client.ServicelHost,
                            Mapped(client.argv, webport))
           \/ ~houseportal_declare(webport, path)
      ]_vars

(***************************************************************************)
(* SpecDepot: a service process that subscribes to one file of one          *)
(* repository, two depot servers, and the Portal of the host.              *)
(***************************************************************************)
DepotElapsed == 11

repoC == <<"c">>
fileA == <<"a">>
hostD == <<"d">>
hostE == <<"e">>

NamesDepot == { fileA }
Providers == { hostD, hostE }

\* What housediscovered may know: no depot server, or both.
Discovered == { {}, Providers }

\* The revisions that the depot servers may hold.
Revisions == { Epoch - 20, Epoch - 10 }

\* What a depot server may list: nothing, or one revision of one file.
Listings ==
    { <<>> } \cup
    { << [name |-> housedepositor_uri(repoC, name), time |-> time] >> :
         name \in NamesDepot, time \in Revisions }

Statuses == { HTTP_OK, 500 }

DeltasDepot == { 11 }

InitDepot == InitOver({<<>>})

NextDepot ==
    \/ hp_redirect_start(HTTP_PORT)
    \/ \E name \in NamesDepot : housedepositor_subscribe(repoC, name, 1)
    \/ \E name \in NamesDepot, providers \in Discovered :
          housedepositor_put(repoC, name, providers)
    \/ \E providers \in Discovered : housedepositor_periodic(providers)
    \/ \E request \in depot.requests, status \in Statuses, updated \in 1..2 :
          housedepositor_check_response(request, status, request.provider, updated)
    \/ \E request \in depot.requests, status \in Statuses, files \in Listings :
          housedepositor_scan_response(request, status, request.provider, files)
    \/ \E request \in depot.requests, status \in Statuses :
          housedepositor_get_response(request, status)
    \/ \E d \in DeltasDepot : now + d <= Epoch + DepotElapsed /\ Tick(d)

SpecDepot == InitDepot /\ [][NextDepot]_vars

\* C20: the revision in use is never later than the revision detected.
C20_ActiveNotAfterDetected ==
    \A i \in 1..Len(depot.Cache) : depot.Cache[i].active <= depot.Cache[i].detected

\* The step is a GET response of status 200.
GetSucceeds ==
    \E request \in depot.requests :
        /\ request.kind = "get"
        /\ depot' = GetResponded(Entered(depot), request, HTTP_OK)

\* C21: a listener is called only by a GET response of status 200, for an
\* entry whose active timestamp differs from the detected one, and the call
\* leaves active equal to the timestamp that was detected.
C21_ListenerAdvances ==
    [][ \/ depot' = depot
        \/ \A k \in 1..Len(depot'.calls) :
              LET i == housedepositor_search(depot.Cache, depot'.calls[k].uri)
              IN /\ GetSucceeds
                 /\ depot.Cache[i].active # depot.Cache[i].detected
                 /\ depot'.Cache[i].active = depot.Cache[i].detected
      ]_vars

\* What the depot servers have reported of the entry since the scan started.
ListedOf(i) == { l \in depot.listed : StrEq(l.uri, depot.Cache[i].uri) }

\* C22: a GET awaited for an entry that was never delivered is addressed to
\* a depot server that reported the most recent revision of all those that
\* the depot servers reported for the entry.
C22_GetOfMaximum ==
    \A request \in depot.requests :
        (request.kind = "get" /\ depot.Cache[request.context].active = 0
            /\ depot.Cache[request.context].refreshing # 0)
        => \E best \in ListedOf(request.context) :
              /\ StrEq(best.host, request.provider)
              /\ \A l \in ListedOf(request.context) : l.time <= best.time

(***************************************************************************)
(* SpecFailover: one file, two depot servers that hold different revisions *)
(* of it, and one step of the clock of three minutes.                      *)
(***************************************************************************)
\* What each depot server may list: nothing, or its revision of the file.
ListingsOf(provider) ==
    { <<>>,
      << [name |-> housedepositor_uri(repoC, fileA),
          time |-> IF provider = hostD THEN Epoch - 10 ELSE Epoch - 20] >> }

\* The clock steps to the last second of the chosen host's grace, or past it.
DeltasFailover == { 180, 181 }

InitFailover == InitOver({<<>>})

NextFailover ==
    \/ hp_redirect_start(HTTP_PORT)
    \/ housedepositor_subscribe(repoC, fileA, 1)
    \/ housedepositor_periodic(Providers)
    \/ \E request \in depot.requests, updated \in 1..2 :
          housedepositor_check_response(request, HTTP_OK, request.provider, updated)
    \/ \E request \in depot.requests : \E files \in ListingsOf(request.provider) :
          housedepositor_scan_response(request, HTTP_OK, request.provider, files)
    \/ \E request \in depot.requests : housedepositor_get_response(request, HTTP_OK)
    \/ \E d \in DeltasFailover : Tick(d)

SpecFailover == InitFailover /\ [][NextFailover]_vars

\* The entry is left as it was, or the chosen host has been silent.
KeptOrSilent(i) ==
    \/ depot'.Cache[i] = depot.Cache[i]
    \/ depot.Cache[i].hostalive < now - 180

TimeoutElapsed == 22

InitTimeout == InitOver({<<>>})

NextTimeout ==
    \/ hp_redirect_start(HTTP_PORT)
    \/ housedepositor_subscribe(repoC, fileA, 1)
    \/ housedepositor_periodic({hostD})
    \/ \E request \in depot.requests, updated \in 1..2 :
          housedepositor_check_response(request, HTTP_OK, request.provider, updated)
    \/ \E request \in depot.requests, files \in Listings :
          housedepositor_scan_response(request, HTTP_OK, request.provider, files)
    \/ \E request \in depot.requests, status \in Statuses :
          housedepositor_get_response(request, status)
    \/ \E d \in DeltasDepot : now + d <= Epoch + TimeoutElapsed /\ Tick(d)

SpecTimeout == InitTimeout /\ [][NextTimeout]_vars

\* housedepositor_periodic would return before housedepositor_refresh: the
\* responses to a scan or to a check are awaited.
Awaiting ==
    \/ depot.ScanPending > 0 /\ now <= depot.ScanStart + 10
    \/ depot.CheckPending > 0 /\ now <= depot.CheckStart + 10

\* The step is the response, with a status other than 200, to a GET of entry i.
GetFails(i) ==
    \E request \in depot.requests :
        /\ request.kind = "get"
        /\ request.context = i
        /\ depot' = GetResponded(Entered(depot), request, 500)

\* The step is a pass of housedepositor_refresh more than 10 s after the GET
\* of entry i was issued.
GetTimesOut(i) ==
    /\ depot.Cache[i].refreshing # 0
    /\ now > depot.Cache[i].refreshing + 10
    /\ ~Awaiting
    /\ \E providers \in SUBSET Providers :
          depot' = Periodically(Entered(depot), now, providers)

\* The step issues a GET for entry i.
GetIssued(i) ==
    \E request \in depot'.requests \ depot.requests :
        request.kind = "get" /\ request.context = i

\* The step is a listing received from a depot server.
ListingReceived ==
    \E request \in depot.requests, files \in Listings :
        /\ request.kind = "scan"
        /\ depot' = ScanResponded(Entered(depot), now, request, HTTP_OK,
                                  request.provider, files)

\* C24: a GET that fails or times out leaves detected equal to active and
\* the entry not refreshing; a GET is issued only for an entry whose detected
\* timestamp differs from the active one, and only a listing makes a
\* detected timestamp other than 0 differ from the active one.
C24_NoHotLoop ==
    [][ \/ depot' = depot
        \/ \A i \in 1..Len(depot.Cache) :
              /\ (GetFails(i) \/ GetTimesOut(i))
                    => /\ depot'.Cache[i].detected = depot.Cache[i].active
                       /\ depot'.Cache[i].refreshing = 0
              /\ GetIssued(i) => depot.Cache[i].detected # depot.Cache[i].active
              /\ \/ depot.Cache[i].detected # depot.Cache[i].active
                 \/ depot'.Cache[i].detected \in {depot'.Cache[i].active, 0}
                 \/ ListingReceived
      ]_vars

(***************************************************************************)
(* SpecPut: one subscribed file, put once; two depot servers that list the *)
(* revision they were sent, and an older revision before that.             *)
(***************************************************************************)
\* The revision of the file that the depot servers hold.
Held(name) ==
    LET uri == housedepositor_uri(repoC, name)
    IN IF \E p \in depot.pushed : StrEq(p.uri, uri)
       THEN (CHOOSE p \in depot.pushed : StrEq(p.uri, uri)).timestamp
       ELSE Epoch - 10

\* What a depot server may list: nothing, or the revision held.
ListingsPut ==
    { <<>>, << [name |-> housedepositor_uri(repoC, fileA), time |-> Held(fileA)] >> }

InitPut == InitOver({<<>>})

NextPut ==
    \/ hp_redirect_start(HTTP_PORT)
    \/ housedepositor_subscribe(repoC, fileA, 1)
    \/ /\ Len(depot.Cache) > 0
       /\ depot.pushed = {}
       /\ \E providers \in Discovered : housedepositor_put(repoC, fileA, providers)
    \/ housedepositor_periodic(Providers)
    \/ \E request \in depot.requests, status \in Statuses, updated \in 1..2 :
          housedepositor_check_response(request, status, request.provider, updated)
    \/ \E request \in depot.requests, status \in Statuses, files \in ListingsPut :
          housedepositor_scan_response(request, status, request.provider, files)
    \/ \E request \in depot.requests, status \in Statuses :
          housedepositor_get_response(request, status)
    \/ \E d \in DeltasDepot : now + d <= Epoch + DepotElapsed /\ Tick(d)

SpecPut == InitPut /\ [][NextPut]_vars

\* The file of entry i has been put.
Pushed(i) == \E p \in depot.pushed : StrEq(p.uri, depot.Cache[i].uri)

\* C25: once a subscribed file has been put, and as long as the depot
\* servers list it with the timestamp of that put, no GET is issued for it.
C25_NoPullBack ==
    [][ \A i \in 1..Len(depot.Cache) : Pushed(i) => ~GetIssued(i) ]_vars

\* C26 (under SpecFailover): for an entry already delivered, a revision more
\* recent than the active one is detected as soon as any depot server lists
\* it, and an older revision is detected only when no depot server lists the
\* active revision or a more recent one.
C26_UpgradeAnyDowngradeAll ==
    \A i \in 1..Len(depot.Cache) :
        LET cache == depot.Cache[i]
        IN cache.active # 0 =>
              /\ \A l \in ListedOf(i) :
                    l.time > cache.active => cache.detected >= l.time
              /\ (cache.detected # 0 /\ cache.detected < cache.active)
                    => \A l \in ListedOf(i) : l.time < cache.active

(***************************************************************************)
(* SpecDiscover: the discovery client of a service process, the Portal of  *)
(* its host and two Portals that list one history service each.            *)
(***************************************************************************)
\* The clock steps of SpecDiscover: a URL seen 61 s after Epoch is 121 s old
\* when the clock stops.
DeltasDiscover == {61, 121}

\* What the local Portal answers to /portal/peers.
PeerLists == { <<>>, <<hostD>>, <<hostD, hostE>> }

\* The URLs of the Portals.
PortalUrls == { kHttp \o h \o kPortalList : h \in {hostD, hostE} }

\* What a Portal answers to /portal/list: a history service runs on the
\* first host, with or without a redirection that is no service, and none
\* on the second.
RedirectLists(host) ==
    IF host = hostD
    THEN { <<[service |-> kHistory, path |-> pA]>>,
           <<[service |-> Null, path |-> pAB],
             [service |-> kHistory, path |-> pA]>> }
    ELSE { <<>>, <<[service |-> Null, path |-> pAB]>> }

\* The host named in the URL "http://<host>/portal/list".
HostOf(url) == SubSeq(url, Len(kHttp) + 1, Len(url) - Len(kPortalList))

ServicesAsked == {kPortal, kHistory}

Sinces == {0, Epoch, Epoch + 61, Epoch + MaxElapsed + 1}

InitDiscover == InitOver({<<>>})

NextDiscover ==
    \/ hp_redirect_start(HTTP_PORT)
    \/ \E reachable \in BOOLEAN : housediscover(now, reachable)
    \/ now = Epoch /\ housediscover(0, TRUE)
    \/ \E request \in discovery.requests, status \in Statuses,
          peers \in PeerLists, recent \in BOOLEAN,
          reachable \in {{}, PortalUrls} :
          housediscover_peers_response(request, status, peers, recent,
                                       reachable)
    \/ \E request \in discovery.requests, status \in Statuses,
          recent \in BOOLEAN :
          \E redirects \in RedirectLists(HostOf(request.provider)) :
             housediscover_service_response(request, status,
                                            HostOf(request.provider),
                                            redirects, recent)
    \/ \E service \in ServicesAsked : housediscovered(service)
    \/ \E d \in DeltasDiscover : Tick(d)

SpecDiscover == InitDiscover /\ [][NextDiscover]_vars

\* The entries of the catalog for a service.
Entries(service) == echttp_hash_iterate(discovery.DiscoveryByService, service)

\* C27: housediscover_changed(service, since) is true if and only if some
\* URL registered for the service has a first-detected time >= since, for
\* every since and every catalog, a service with no URL included.
C27_ChangedIffDetected ==
    \A service \in ServicesAsked, since \in Sinces :
        housediscover_changed(discovery, service, since)
            <=> \E i \in Entries(service) :
                    discovery.DiscoveryFirstDetected[i] >= since

\* How many times the consumer was given that URL.
TimesGiven(url) ==
    Cardinality({ k \in 1..Len(discovery.calls) : discovery.calls[k] = url })

\* Last seen more than 120 s before the latest discovery request started.
UrlLapsed(i) ==
    discovery.DiscoveryLatest[i] + DISCOVERY_SERVICE_INTERVAL
        < discovery.started

\* C28: housediscovered(service, fn) calls fn exactly once for every URL of
\* the service that is not lapsed and never for a lapsed one, a URL being
\* lapsed when last seen + 120 < the start time of the latest discovery
\* request.
C28_OncePerFreshUrl ==
    discovery.asked # Null =>
        \A i \in Entries(discovery.asked) :
            TimesGiven(discovery.DiscoveryUrl[i]) = IF UrlLapsed(i) THEN 0 ELSE 1

\* The entries that the lapse test of the code rejects.
LapsedIn(d) ==
    { i \in 1..Len(d.DiscoveryLatest) :
        housediscover_lapsed(d, d.DiscoveryLatest[i]) }

\* C29: a GET of /portal/peers that fails or times out is no discovery
\* progress: it does not advance the start time used by the lapse test and
\* no known URL becomes lapsed because of it.
C29_FailedAttemptNoProgress ==
    [][ discovery'.attempt \in {"failed", "error"} =>
            /\ discovery'.DiscoveryRequest = discovery.DiscoveryRequest
            /\ LapsedIn(discovery') \subseteq LapsedIn(discovery) ]_vars

(***************************************************************************)
(* SpecLog: a service process that logs events and traces, the Portal of   *)
(* its host and one history service found through it.                      *)
(***************************************************************************)
\* The clock of SpecLog stops this long after Epoch.
LogElapsed == 4

\* No more events, and no more traces, than this are logged.
MaxRecords == 2

DeltasLog == {2}

\* The URL of the history service.
HistoryUrls == { kHttp \o hostD \o pA }

\* How many records a ring holds.
Held_in(history) ==
    Cardinality({ i \in DOMAIN history : history[i].timestamp # 0 })

InitLog == InitOver({<<>>})

NextLog ==
    \/ hp_redirect_start(HTTP_PORT)
    \/ houselog_initialize(TRUE, HistoryUrls)
    \/ Held_in(log.EventHistory) < MaxRecords /\ houselog_event(HistoryUrls)
    \/ /\ Held_in(log.EventHistory) < MaxRecords
       /\ houselog_event_local(HistoryUrls)
    \/ Held_in(log.TraceHistory) < MaxRecords /\ houselog_trace(HistoryUrls)
    \/ \E accepted \in {{}, HistoryUrls} : houselog_background(TRUE, accepted)
    \/ \E post \in log.posts, status \in Statuses :
          houselog_storage_response(post, status)
    \/ \E request \in discovery.requests :
          housediscover_peers_response(request, HTTP_OK, <<hostD>>, TRUE,
                                       PortalUrls)
    \/ \E request \in discovery.requests :
          housediscover_service_response(
              request, HTTP_OK, HostOf(request.provider),
              <<[service |-> kHistory, path |-> pA]>>, TRUE)
    \/ \E d \in DeltasLog : now + d <= Epoch + LogElapsed /\ Tick(d)

SpecLog == InitLog /\ [][NextLog]_vars

\* The records of a ring that were to be forwarded and are marked delivered.
Delivered_in(history) ==
    { history[i].id : i \in { j \in DOMAIN history :
                                /\ history[j].timestamp # 0
                                /\ history[j].propagate = 1
                                /\ history[j].unsaved = 0 } }

\* A POST of the record was answered with status 200, or one is in flight.
Posted(logtype, id) ==
    \/ <<logtype, id>> \in log.stored
    \/ \E post \in log.posts : post.logtype = logtype /\ id \in post.batch

\* C30: an event or trace record to forward is marked delivered (0) only
\* when the POST of its batch to a history service succeeds; when the POST
\* fails it is fresh (1) again: no record is delivered without a successful
\* POST.
C30_DeliveredOnlyIfPosted ==
    /\ \A id \in Delivered_in(log.EventHistory) : Posted("events", id)
    /\ \A id \in Delivered_in(log.TraceHistory) : Posted("traces", id)

(***************************************************************************)
(* The stages of the depot client, under SpecDepot.                        *)
(***************************************************************************)
\* The requests of these kinds that the step submits.
Submits(kinds) ==
    \E request \in depot'.requests \ depot.requests : request.kind \in kinds

\* C31: at most one of the stages check, scan and refresh is in progress: no
\* /check or listing request is submitted while a file GET still awaits its
\* response, and no file GET is submitted while a check or a scan is
\* pending.
C31_OneStage ==
    [][ /\ Submits({"check", "scan"}) =>
              \A i \in 1..Len(depot'.Cache) : depot'.Cache[i].refreshing = 0
        /\ Submits({"get"}) =>
              depot'.ScanPending = 0 /\ depot'.CheckPending = 0 ]_vars

(***************************************************************************)
(* The live entries across reloads, under SpecReload.                      *)
(***************************************************************************)
\* The paths of the entries whose lease runs beyond t.
LivePaths(R, t) ==
    { R[i].path : i \in { j \in 1..Len(R) : R[j].expiration > t } }

\* C32: a service whose renewals reach the Portal in time keeps its entry
\* under every sequence of background ticks and reloads of the
\* configuration file: a reload removes only formerly permanent entries and
\* entries whose lease has lapsed, never a live entry with expiration > now.
C32_LiveEntrySurvives ==
    [][ pc' = "run" =>
           \A path \in LivePaths(Redirections, now) :
               \E j \in 1..Len(Redirections') :
                   StrEq(Redirections'[j].path, path) ]_vars

(***************************************************************************)
(* What the listener is given, under SpecDepot.                            *)
(***************************************************************************)
\* C33: whenever the listener is called, the timestamp passed is the
\* detected timestamp, other than 0, for which the GET was issued, the body
\* comes from the host that reported that timestamp, and the revision is not
\* the one already delivered, under every interleaving of the GET response
\* with check responses, scan starts, late listings and timeouts.
C33_ListenerGivenWhatWasAsked ==
    \A k \in 1..Len(depot.calls) :
        LET call == depot.calls[k]
        IN /\ call.timestamp # 0
           /\ call.timestamp = call.wanted
           /\ StrEq(call.host, call.source)
           /\ call.timestamp # call.held

(***************************************************************************)
(* SpecAnswering: one file and two depot servers, each answering every     *)
(* scan it is asked with status 200 and a listing of its revision of the   *)
(* file, at any time after the request.                                    *)
(***************************************************************************)
RevisionOf(provider) ==
    << [name |-> housedepositor_uri(repoC, fileA),
        time |-> IF provider = hostD THEN Epoch - 10 ELSE Epoch - 20] >>

InitAnswering == InitOver({<<>>})

NextAnswering ==
    \/ hp_redirect_start(HTTP_PORT)
    \/ housedepositor_subscribe(repoC, fileA, 1)
    \/ housedepositor_periodic(Providers)
    \/ \E request \in depot.requests, updated \in 1..2 :
          housedepositor_check_response(request, HTTP_OK, request.provider, updated)
    \/ \E request \in depot.requests :
          housedepositor_scan_response(request, HTTP_OK, request.provider,
                                       RevisionOf(request.provider))
    \/ \E request \in depot.requests : housedepositor_get_response(request, HTTP_OK)
    \/ \E d \in DeltasFailover : Tick(d)

SpecAnswering == InitAnswering /\ [][NextAnswering]_vars

\* The depot server has left a scan unanswered past the wait for responses.
Unanswering(host) ==
    \E request \in depot.requests :
        /\ request.kind = "scan"
        /\ StrEq(request.provider, host)
        /\ request.at + RESPONSE_TIMEOUT < now

\* C34 (under SpecAnswering): the host of an entry already delivered changes
\* only if the chosen host has failed to answer a scan, whatever the time
\* between two scans and whatever the order in which the listings arrive.
C34_AnsweringHostKept ==
    [][ \A i \in 1..Len(depot.Cache) :
           \/ depot.Cache[i].active = 0
           \/ StrEq(depot'.Cache[i].host, depot.Cache[i].host)
           \/ Unanswering(depot.Cache[i].host) ]_vars

(***************************************************************************)
(* Publishing the peers: hp_redirect_publish, called by each periodic pass *)
(* of hp_redirect_background. It sends datagrams and changes no data of    *)
(* the Portal.                                                             *)
(***************************************************************************)
\* sizeof(buffer) in hp_redirect_publish.
PUBLISH_SIZE == 1400

houseportalhmac_size(cypher) == IF StrEq(cypher, kSHA256) THEN SIGNATURE_SIZE ELSE 0

\* What the peer i adds to the packet at time t.
PublishedItem(P, t, i) ==
    IF P[i].expiration >= t
    THEN <<" ">> \o P[i].name \o <<"=">> \o Itoa(P[i].expiration)
    ELSE IF P[i].expiration = 0 THEN <<" ">> \o P[i].name
    ELSE <<>>

\* The loop over the peers: it stops at the first item that does not fit.
RECURSIVE PublishedFrom(_, _, _, _, _)
PublishedFrom(P, t, size, buffer, i) ==
    IF i > Len(P) THEN buffer
    ELSE IF Len(buffer) + Len(PublishedItem(P, t, i)) >= size THEN buffer
    ELSE PublishedFrom(P, t, size, buffer \o PublishedItem(P, t, i), i + 1)

\* sent: whether a packet goes out; packet: its text; unicast: the peers
\* that are sent a copy of their own.
hp_redirect_publish(st, t) ==
    LET size == IF Len(st.K) > 0
                THEN PUBLISH_SIZE - (houseportalhmac_size(st.K[1].method) + 2)
                ELSE PUBLISH_SIZE
        buffer == PublishedFrom(st.P, t, size,
                                Snprintf(size, Join(<<kPEER, Itoa(t)>>)), 1)
        signature == houseportalhmac(st.K[1].method, st.K[1].value, buffer)
        unicast == { st.P[i].name :
                        i \in { j \in 2..Len(st.P) : st.P[j].expiration = 0 } }
    IN IF st.L # 0 THEN [sent |-> FALSE, packet |-> <<>>, unicast |-> {}]
       ELSE IF Len(st.K) = 0
       THEN [sent |-> TRUE, packet |-> buffer, unicast |-> unicast]
       ELSE IF signature = Null
       THEN [sent |-> FALSE, packet |-> <<>>, unicast |-> {}]
       ELSE [sent |-> TRUE,
             packet |-> buffer \o <<" ">> \o st.K[1].method \o <<" ">> \o signature,
             unicast |-> unicast]

(***************************************************************************)
(* SpecRelay: the Portal A (this one, with no static peer), a Portal C     *)
(* that publishes, then stops, and a Portal B that knows C and keeps       *)
(* publishing.                                                             *)
(***************************************************************************)
peerC == <<"c">>

\* What a Portal with the peers P publishes at time t.
PacketOf(P, t) ==
    hp_redirect_publish(Portal(<<>>, P, <<>>, 0, <<>>, FALSE), t).packet

\* The peers of C: itself.
TableOfC == << [name |-> peerC, expiration |-> 0] >>

\* The peers of B: itself, and C either declared by a PEER directive of B or
\* known from the last packet of C.
TablesOfB ==
    { << [name |-> peerB, expiration |-> 0], [name |-> peerC, expiration |-> e] >> :
         e \in {0, Epoch + REDIRECT_LIFETIME} }

\* C publishes until the clock first advances.
CPublishes == now = Epoch /\ hp_redirect_udp(PacketOf(TableOfC, now))

DeltasRelay == {91}

InitRelay == InitOver({<<>>})

NextRelay ==
    \/ hp_redirect_start(HTTP_PORT)
    \/ CPublishes
    \/ \E P \in TablesOfB : hp_redirect_udp(PacketOf(P, now))
    \/ hp_redirect_background
    \/ \E d \in DeltasRelay : Tick(d)

\* The main loop calls hp_redirect_background again and again, and the clock
\* advances.
SpecRelay ==
    /\ InitRelay /\ [][NextRelay]_vars
    /\ WF_vars(hp_redirect_background)
    /\ WF_vars(\E d \in DeltasRelay : Tick(d))

\* C35 (under SpecRelay): once C has stopped publishing, no packet of
\* another Portal raises the lease of C at A, and PEER/EXPIRE for C is
\* eventually emitted (the expiration of C at A becomes 1), whatever B
\* relays: C by its bare name when B declares it, C with its lease otherwise.
C35_SilentPeerExpires ==
    /\ [][ (now > Epoch /\ LeaseOf(Peers, peerC) > 0) =>
              LeaseOf(Peers', peerC) <= LeaseOf(Peers, peerC) ]_vars
    /\ (LeaseOf(Peers, peerC) > 1) ~> (LeaseOf(Peers, peerC) = 1)

(***************************************************************************)
(* SpecStatic: configuration files with one PEER directive, the name of    *)
(* the Portal being absent from it, first or last; the peer "x" may be     *)
(* known from the packets of the Portal "q" before it is declared.         *)
(***************************************************************************)
PeerDirectives ==
    { <<peerX>>, <<peerX, peerY>>, <<HostName, peerX>>, <<peerX, HostName>> }

FilesStatic == { << Line(<<kPEER>> \o names) >> : names \in PeerDirectives }

DatagramsStatic == { LivePeer(<<peerQ, peerX>>) }

DeltasStatic == {91}

InitStatic == InitOver(FilesStatic \cup {<<>>})

\* The file is rewritten at a time other than the one of the file in use.
NextStatic ==
    \/ hp_redirect_start(HTTP_PORT)
    \/ \E buffer \in DatagramsStatic : hp_redirect_udp(buffer)
    \/ hp_redirect_background
    \/ \E d \in DeltasStatic : Tick(d)
    \/ \E text \in FilesStatic : ConfigurationTime # now /\ EditConfig(text)

SpecStatic == InitStatic /\ [][NextStatic]_vars

\* The names that the PEER directives of the file give, less the Portal's.
RECURSIVE NamedFrom(_, _)
NamedFrom(text, i) ==
    IF i > Len(text) THEN {}
    ELSE LET token == Split(text[i]).token
         IN (IF StrEq(token[1], kPEER)
             THEN { token[k] : k \in 2..Len(token) } \ {HostName} ELSE {})
            \cup NamedFrom(text, i + 1)

\* C37 (under SpecStatic): once the file is loaded or reloaded, every peer
\* named in a PEER directive, other than the Portal itself, has expiration 0
\* and is sent a copy of each packet published, wherever the Portal's name
\* stands in the directive and whether or not gossip made the peer known.
C37_StaticPeersPermanent ==
    (pc = "run" /\ ConfigurationTime = file.mtime) =>
        \A name \in NamedFrom(file.text, 1) :
            /\ LeaseOf(Peers, name) = 0
            /\ hp_redirect_publish(Current, now).sent
            /\ name \in hp_redirect_publish(Current, now).unicast

(***************************************************************************)
(* SpecLapse: one Portal d on which the history service stays registered,  *)
(* housediscover called in every second, no request that fails, and each   *)
(* response received less than 10 s after its request.                     *)
(***************************************************************************)
DeltasLapse == {5}

\* What each Portal answers to /portal/list.
RedirectsOf(host) ==
    IF host = hostD THEN <<[service |-> kHistory, path |-> pA]>> ELSE <<>>

\* The time at which the request was submitted: a request for the peers by
\* the latest attempt of housediscover, a request for the list of a Portal
\* by the latest iteration over the Portals.
SubmittedAt(request) ==
    IF request.kind = "peers" THEN discovery.started
    ELSE discovery.DiscoveryDetail

\* The clock advances once housediscover has nothing more to do in this
\* second, and no response is left to wait 10 s or more.
Advance(d) ==
    /\ now < discovery.DiscoveryRequest + DISCOVERY_PORTAL_INTERVAL
    /\ \A request \in discovery.requests :
          now + d < SubmittedAt(request) + DISCOVERY_PORTAL_INTERVAL
    /\ Tick(d)

InitLapse == InitOver({<<>>})

NextLapse ==
    \/ hp_redirect_start(HTTP_PORT)
    \/ housediscover(now, TRUE)
    \/ \E request \in discovery.requests :
          housediscover_peers_response(request, HTTP_OK, <<hostD>>, TRUE,
                                       PortalUrls)
    \/ \E request \in discovery.requests :
          housediscover_service_response(request, HTTP_OK,
                                         HostOf(request.provider),
                                         RedirectsOf(HostOf(request.provider)),
                                         TRUE)
    \/ housediscovered(kHistory)
    \/ \E d \in DeltasLapse : Advance(d)

SpecLapse == InitLapse /\ [][NextLapse]_vars

\* C36 (under SpecLapse): once the history service is in the catalog it is
\* never lapsed: housediscovered gives its URL at every time, whatever the
\* delay of each response below 10 s, and whether or not a request for the
\* peers fails or a new Portal is detected.
C36_NeverLapsed ==
    \A i \in Entries(kHistory) :
        ~housediscover_lapsed(discovery, discovery.DiscoveryLatest[i])

(***************************************************************************)
(* What the Portal receives of the datagrams of the client, under          *)
(* SpecSigned.                                                             *)
(***************************************************************************)
\* The paths that a REDIRECT datagram declares: its tokens that start with
\* "/".
PathsIn(datagram) ==
    LET token == Split(Payload(datagram)).token
    IN { token[k] : k \in { j \in 1..Len(token) : At(token[j], 1) = "/" } }

\* The table of a Portal that knew nothing and has decoded the buffer.
Decoded(buffer) ==
    DecodeMessage(Portal(<<>>, <<>>, <<>>, 0, <<>>, FALSE), now,
                  Payload(buffer), 1).R

\* C38 (under SpecSigned): every datagram that the client sends, up to its
\* packing limit of 1400 bytes and the signature suffix, is received whole by
\* the Portal: a signed datagram keeps its signature and every path that the
\* datagram declares is registered.
C38_ReceivedWhole ==
    \A i \in 1..Len(client.sent) :
        LET datagram == client.sent[i]
        IN /\ Received(datagram) = datagram
           /\ Strstr(datagram, sha256mark) # 0 =>
                 Strstr(Received(datagram), sha256mark) # 0
           /\ PathsIn(datagram) \subseteq PathsOf(Decoded(Received(datagram)))

(***************************************************************************)
(* SpecBounds: live REDIRECT datagrams at the limits of hp_redirect_udp    *)
(* and of DecodeMessage: 1023, 1024 and 1025 bytes, 128, 129 and 130       *)
(* tokens, all received within one second.                                 *)
(***************************************************************************)
\* A REDIRECT datagram of n bytes: fourteen paths of 67 characters, and a
\* last path that fills it.
Sized(n) ==
    LET head == LiveRedirect(tgt2, <<>>, PathList(14, 67))
    IN head \o <<" ">> \o Padded(n - Len(head) - 1, 99)

\* A REDIRECT datagram of n tokens: the keyword, the time, the target and
\* the paths.
Tokenized(n) ==
    LiveRedirect(tgt2, <<>>, [k \in 1..(n - 3) |-> NumberedPath(k)])

DatagramsBounds ==
    { LiveRedirect(tgt2, <<>>, <<pA>>) }
    \cup { Sized(n) : n \in {RECEIVE_SIZE - 1, RECEIVE_SIZE, RECEIVE_SIZE + 1} }
    \cup { Tokenized(n) :
              n \in {REDIRECT_MAX, REDIRECT_MAX + 1, REDIRECT_MAX + 2} }

InitBounds == InitOver({<<>>})

NextBounds ==
    \/ hp_redirect_start(HTTP_PORT)
    \/ \E datagram \in DatagramsBounds : hp_redirect_udp(datagram)

SpecBounds == InitBounds /\ [][NextBounds]_vars

\* The datagram is longer than the receive buffer, or has more tokens than
\* DecodeMessage stores.
Oversized(datagram) ==
    \/ Len(datagram) > RECEIVE_SIZE
    \/ Len(Split(datagram).token) > REDIRECT_MAX
    \/ Split(datagram).many

\* C39 (under SpecBounds): no datagram makes the Portal write out of bounds,
\* whatever its length up to the 1024 bytes that the receive call can return
\* and whatever its number of tokens: the process goes on, and a datagram
\* that is too long or has too many tokens changes nothing.
\* (Written "the process goes on, or not this datagram": the cheap side
\* comes first.)
C39_NoWriteOutOfBounds ==
    [][ \A datagram \in DatagramsBounds :
           \/ /\ pc' = "run"
              /\ Terminated(Len(Received(datagram))) = {TRUE}
              /\ Stored(Payload(Received(datagram))) = {TRUE}
              /\ Oversized(datagram) =>
                    Redirections' = Redirections /\ Peers' = Peers
           \/ ~hp_redirect_udp(datagram) ]_vars

(***************************************************************************)
(* SpecWrap: a burst of events that fills the ring of EVENT_DEPTH records  *)
(* within one second, once the history service is discovered; the clock    *)
(* and the background function run before the burst.                       *)
(***************************************************************************)
\* The burst has not begun: the ring holds the event of houselog_initialize.
Calm == log.EventCursor <= 1

\* The ring has not wrapped yet.
Filling == log.EventCursor # 0

InitWrap == InitOver({<<>>})

NextWrap ==
    \/ hp_redirect_start(HTTP_PORT)
    \/ houselog_initialize(TRUE, HistoryUrls)
    \/ /\ Filling
       /\ HistoryProviders(discovery, HistoryUrls) # {}
       /\ houselog_event(HistoryUrls)
    \/ Calm /\ houselog_background(TRUE, HistoryUrls)
    \/ \E post \in log.posts : houselog_storage_response(post, HTTP_OK)
    \/ \E request \in discovery.requests :
          housediscover_peers_response(request, HTTP_OK, <<hostD>>, TRUE,
                                       PortalUrls)
    \/ \E request \in discovery.requests :
          housediscover_service_response(
              request, HTTP_OK, HostOf(request.provider),
              <<[service |-> kHistory, path |-> pA]>>, TRUE)
    \/ \E d \in DeltasLog : Calm /\ now + d <= Epoch + LogElapsed /\ Tick(d)

SpecWrap == InitWrap /\ [][NextWrap]_vars

\* C40 (under SpecWrap): a propagated event that is fresh (unsaved = 1) is
\* not overwritten or cleared by houselog_event unless the flush that
\* precedes the erasure has put it in the batch of a POST.
C40_SentBeforeErased ==
    [][ \A i \in DOMAIN log.EventHistory :
           ( /\ log.EventHistory[i].timestamp # 0
             /\ log.EventHistory[i].unsaved = 1
             /\ Slot(log'.EventHistory, i).id # log.EventHistory[i].id )
           => \E post \in log'.posts :
                 /\ post.logtype = "events"
                 /\ log.EventHistory[i].id \in post.batch ]_vars

=============================================================================
